---- MODULE Spec2Model ----
(***************************************************************************)
(* Model of the GLEIF LEI matcher (src/gleif_matcher.py): the reference    *)
(* loader, the index builder, the per-row matcher with its tier cascade    *)
(* and the LEI discordance check.                                          *)
(*                                                                         *)
(* Text is a sequence of characters.  An ASCII character is the one-letter *)
(* string; the few non-ASCII characters the model uses have names:         *)
(*   "e_acute" / "E_ACUTE"   U+00E9 / U+00C9                               *)
(*   "e_grave" / "E_GRAVE"   U+00E8 / U+00C8                               *)
(*   "FW1"                   U+FF11 FULLWIDTH DIGIT ONE                    *)
(*   "AI3"                   U+0663 ARABIC-INDIC DIGIT THREE               *)
(* The empty text is <<>>.                                                 *)
(***************************************************************************)
EXTENDS Integers, Sequences, FiniteSets, TLC

\* ------------------------------------------------------------------ text

Digits == <<"0", "1", "2", "3", "4", "5", "6", "7", "8", "9">>

UpperLetters ==
    <<"A", "B", "C", "D", "E", "F", "G", "H", "I", "J", "K", "L", "M",
      "N", "O", "P", "Q", "R", "S", "T", "U", "V", "W", "X", "Y", "Z">>

LowerLetters ==
    <<"a", "b", "c", "d", "e", "f", "g", "h", "i", "j", "k", "l", "m",
      "n", "o", "p", "q", "r", "s", "t", "u", "v", "w", "x", "y", "z">>

Range(s) == {s[i] : i \in 1..Len(s)}

DigitSet == Range(Digits)

UpperSet == Range(UpperLetters)

LowerSet == Range(LowerLetters)

IndexOf(s, c) ==
    IF \E i \in 1..Len(s) : s[i] = c
    THEN CHOOSE i \in 1..Len(s) : s[i] = c
    ELSE 0

\* str.isspace for the characters of the model
IsSpace(c) == c = " "

\* [0-9A-Z]
IsAsciiUpperAlnum(c) == c \in DigitSet \/ c \in UpperSet

\* \w of the re module on text that was uppercased and stripped of marks
IsWordChar(c) ==
    \/ c \in DigitSet
    \/ c \in UpperSet
    \/ c \in LowerSet
    \/ c \in {"_", "e_acute", "E_ACUTE", "e_grave", "E_GRAVE", "AI3", "FW1"}

\* str.upper, one character
UpperChar(c) ==
    IF c \in LowerSet THEN UpperLetters[IndexOf(LowerLetters, c)]
    ELSE IF c = "e_acute" THEN "E_ACUTE"
    ELSE IF c = "e_grave" THEN "E_GRAVE"
    ELSE c

\* str.lower, one character
LowerChar(c) ==
    IF c \in UpperSet THEN LowerLetters[IndexOf(UpperLetters, c)]
    ELSE IF c = "E_ACUTE" THEN "e_acute"
    ELSE IF c = "E_GRAVE" THEN "e_grave"
    ELSE c

\* unicodedata.normalize("NFKC", .), one character
NFKCChar(c) == IF c = "FW1" THEN "1" ELSE c

\* unicodedata.digit(c, -1) of a non-ASCII character of category Nd
NonAsciiDigitChar(c) ==
    IF c = "AI3" THEN "3" ELSE IF c = "FW1" THEN "1" ELSE c

\* unicodedata.normalize("NFD", .) followed by the removal of category Mn
StripAccentChar(c) ==
    IF c \in {"E_ACUTE", "E_GRAVE"} THEN "E"
    ELSE IF c \in {"e_acute", "e_grave"} THEN "e"
    ELSE c

Upper(s) == [i \in 1..Len(s) |-> UpperChar(s[i])]

Lower(s) == [i \in 1..Len(s) |-> LowerChar(s[i])]

RECURSIVE LStrip(_)
LStrip(s) ==
    IF s # <<>> /\ IsSpace(Head(s)) THEN LStrip(Tail(s)) ELSE s

RECURSIVE RStrip(_)
RStrip(s) ==
    IF s # <<>> /\ IsSpace(s[Len(s)]) THEN RStrip(SubSeq(s, 1, Len(s) - 1)) ELSE s

\* str.strip
Strip(s) == RStrip(LStrip(s))

\* a in b, for two texts
Contains(b, a) ==
    \E i \in 0..(Len(b) - Len(a)) : SubSeq(b, i + 1, i + Len(a)) = a

\* ------------------------------------------------------- normalize_rcs

\* the character class [A-ZÉÈÀÂÊÎÔÙÛÇ\s] of the "RCS <city>" prefix
IsCityChar(c) ==
    c \in UpperSet \/ c \in {"E_ACUTE", "E_GRAVE"} \/ IsSpace(c)

\* length of the longest prefix of s made of city characters
RECURSIVE CityRun(_)
CityRun(s) ==
    IF s # <<>> /\ IsCityChar(Head(s)) THEN 1 + CityRun(Tail(s)) ELSE 0

\* re.sub(r"^RCS\s+[A-ZÉÈÀÂÊÎÔÙÛÇ\s]+\s+", "", raw): the greedy match ends at
\* the last white space of the city run, which must leave one character to
\* each of \s+, [..]+ and \s+
RemoveRcsPrefix(raw) ==
    IF Len(raw) >= 3 /\ SubSeq(raw, 1, 3) = <<"R", "C", "S">>
    THEN LET rest == SubSeq(raw, 4, Len(raw))
             run == CityRun(rest)
             spaces == {p \in 1..run : IsSpace(rest[p])}
             lastws == IF spaces = {} THEN 0
                       ELSE CHOOSE p \in spaces : \A q \in spaces : q <= p
         IN IF run >= 3 /\ IsSpace(rest[1]) /\ lastws >= 3
            THEN SubSeq(rest, lastws + 1, Len(rest))
            ELSE raw
    ELSE raw

\* unicodedata.normalize("NFKC", raw).upper() and the non-ASCII digits replaced
NormalizeDigits(s) ==
    [i \in 1..Len(s) |-> NonAsciiDigitChar(UpperChar(NFKCChar(s[i])))]

\* variant: one leading zero of the number is dropped
normalize_rcs_dropping_zero(value) ==
    IF Strip(value) = <<>> THEN <<>>
    ELSE LET kept == SelectSeq(Strip(RemoveRcsPrefix(NormalizeDigits(value))),
                               IsAsciiUpperAlnum)
         IN IF kept # <<>> /\ Head(kept) = "0" THEN Tail(kept) ELSE kept

normalize_rcs(value) ==
    IF Strip(value) = <<>> THEN <<>>
    ELSE SelectSeq(Strip(RemoveRcsPrefix(NormalizeDigits(value))),
                   IsAsciiUpperAlnum)

\* ------------------------------------------------------ normalize_name

\* _LEGAL_FORMS_RE: the alternatives in the order of the pattern; each is its
\* letters, every one followed by \.?, between two \b; u marks the trailing U?
\* of the first alternative
LEGAL_FORMS ==
    << [l |-> <<"S", "A", "S">>, u |-> TRUE],
       [l |-> <<"S", "A", "R", "L">>, u |-> FALSE],
       [l |-> <<"S", "A">>, u |-> FALSE],
       [l |-> <<"S", "N", "C">>, u |-> FALSE],
       [l |-> <<"S", "C", "I">>, u |-> FALSE],
       [l |-> <<"E", "U", "R", "L">>, u |-> FALSE],
       [l |-> <<"G", "I", "E">>, u |-> FALSE],
       [l |-> <<"S", "C", "M">>, u |-> FALSE],
       [l |-> <<"S", "C", "P">>, u |-> FALSE],
       [l |-> <<"S", "C", "S">>, u |-> FALSE],
       [l |-> <<"S", "C">>, u |-> FALSE],
       [l |-> <<"G", "M", "B", "H">>, u |-> FALSE],
       [l |-> <<"A", "G">>, u |-> FALSE],
       [l |-> <<"S", "E">>, u |-> FALSE],
       [l |-> <<"L", "T", "D">>, u |-> FALSE],
       [l |-> <<"P", "L", "C">>, u |-> FALSE],
       [l |-> <<"I", "N", "C">>, u |-> FALSE],
       [l |-> <<"L", "L", "C">>, u |-> FALSE],
       [l |-> <<"B", "V">>, u |-> FALSE],
       [l |-> <<"N", "V">>, u |-> FALSE],
       [l |-> <<"S", "P", "A">>, u |-> FALSE],
       [l |-> <<"S", "R", "L">>, u |-> FALSE] >>

\* \b before position p of s (p = Len(s) + 1: the end)
Boundary(s, p) ==
    (p > 1 /\ p - 1 <= Len(s) /\ IsWordChar(s[p - 1]))
        # (p >= 1 /\ p <= Len(s) /\ IsWordChar(s[p]))

\* the letters l[k..] at s[j..], a dot allowed after each letter but the last;
\* the position after the last letter, 0 when they do not match
RECURSIVE MatchLetters(_, _, _, _)
MatchLetters(s, j, l, k) ==
    IF j > Len(s) \/ UpperChar(s[j]) # l[k] THEN 0
    ELSE IF k = Len(l) THEN j + 1
    ELSE IF j + 1 <= Len(s) /\ s[j + 1] = "."
    THEN MatchLetters(s, j + 2, l, k + 1)
    ELSE MatchLetters(s, j + 1, l, k + 1)

\* one alternative of _LEGAL_FORMS_RE at position i: the position after the
\* match (greedy \.? and U?, given back when the closing \b needs it), or 0
\* the end of an alternative whose letters end before position j (0: they do
\* not match), dot telling whether s[j] is a dot
MatchFormEnd(s, j, u, dot) ==
    IF j = 0 THEN 0
    ELSE IF dot /\ u /\ j + 1 <= Len(s) /\ UpperChar(s[j + 1]) = "U"
            /\ Boundary(s, j + 2) THEN j + 2
    ELSE IF dot /\ Boundary(s, j + 1) THEN j + 1
    ELSE IF ~dot /\ u /\ j <= Len(s) /\ UpperChar(s[j]) = "U"
            /\ Boundary(s, j + 1) THEN j + 1
    ELSE IF Boundary(s, j) THEN j
    ELSE 0

\* s[j] is a dot
IsDot(s, j) == j # 0 /\ j <= Len(s) /\ s[j] = "."

MatchForm(s, i, f) ==
    IF ~Boundary(s, i) THEN 0
    ELSE MatchFormEnd(s, MatchLetters(s, i, f.l, 1), f.u,
                      IsDot(s, MatchLetters(s, i, f.l, 1)))

\* the first alternative that matches at i decides: the position after it, or 0
RECURSIVE LegalFormEndFrom(_, _, _)
LegalFormEndFrom(s, i, n) ==
    IF n > Len(LEGAL_FORMS) THEN 0
    ELSE IF MatchForm(s, i, LEGAL_FORMS[n]) # 0
    THEN MatchForm(s, i, LEGAL_FORMS[n])
    ELSE LegalFormEndFrom(s, i, n + 1)

LegalFormEnd(s, i) == LegalFormEndFrom(s, i, 1)

\* _LEGAL_FORMS_RE.sub(" ", name), from position i on
RECURSIVE LegalFormsSub(_, _)
LegalFormsSub(s, i) ==
    IF i > Len(s) THEN <<>>
    ELSE IF LegalFormEnd(s, i) # 0
    THEN <<" ">> \o LegalFormsSub(s, LegalFormEnd(s, i))
    ELSE <<s[i]>> \o LegalFormsSub(s, i + 1)

\* re.sub(r"\s+", " ", name)
RECURSIVE CollapseSpaces(_)
CollapseSpaces(s) ==
    IF s = <<>> THEN <<>>
    ELSE IF IsSpace(Head(s))
    THEN <<" ">> \o CollapseSpaces(LStrip(s))
    ELSE <<Head(s)>> \o CollapseSpaces(Tail(s))

\* unicodedata.normalize("NFD", name) without its characters of category Mn
StripAccents(s) == [i \in 1..Len(s) |-> StripAccentChar(s[i])]

\* re.sub(r"[^A-Z0-9\s]", " ", name)
BlankPunctuation(s) ==
    [i \in 1..Len(s) |->
        IF IsAsciiUpperAlnum(s[i]) \/ IsSpace(s[i]) THEN s[i] ELSE " "]

normalize_name(value) ==
    IF Strip(value) = <<>> THEN <<>>
    ELSE Strip(CollapseSpaces(BlankPunctuation(
             LegalFormsSub(StripAccents(Upper(value)), 1))))

\* ------------------------------------------------------ country_to_iso

COUNTRY_MAP ==
    {
      <<<<"f", "r", "a", "n", "c", "e">>, <<"F", "R">>>>,
      <<<<"f", "r">>, <<"F", "R">>>>,
      <<<<"a", "l", "l", "e", "m", "a", "g", "n", "e">>, <<"D", "E">>>>,
      <<<<"g", "e", "r", "m", "a", "n", "y">>, <<"D", "E">>>>,
      <<<<"d", "e">>, <<"D", "E">>>>,
      <<<<"i", "t", "a", "l", "i", "e">>, <<"I", "T">>>>,
      <<<<"i", "t", "a", "l", "y">>, <<"I", "T">>>>,
      <<<<"i", "t">>, <<"I", "T">>>>,
      <<<<"e", "s", "p", "a", "g", "n", "e">>, <<"E", "S">>>>,
      <<<<"s", "p", "a", "i", "n">>, <<"E", "S">>>>,
      <<<<"e", "s">>, <<"E", "S">>>>,
      <<<<"b", "e", "l", "g", "i", "q", "u", "e">>, <<"B", "E">>>>,
      <<<<"b", "e", "l", "g", "i", "u", "m">>, <<"B", "E">>>>,
      <<<<"b", "e">>, <<"B", "E">>>>,
      <<<<"s", "u", "i", "s", "s", "e">>, <<"C", "H">>>>,
      <<<<"s", "w", "i", "t", "z", "e", "r", "l", "a", "n", "d">>, <<"C", "H">>>>,
      <<<<"c", "h">>, <<"C", "H">>>>,
      <<<<"l", "u", "x", "e", "m", "b", "o", "u", "r", "g">>, <<"L", "U">>>>,
      <<<<"l", "u">>, <<"L", "U">>>>,
      <<<<"p", "a", "y", "s", "-", "b", "a", "s">>, <<"N", "L">>>>,
      <<<<"n", "e", "t", "h", "e", "r", "l", "a", "n", "d", "s">>, <<"N", "L">>>>,
      <<<<"n", "l">>, <<"N", "L">>>>,
      <<<<"h", "o", "l", "l", "a", "n", "d", "e">>, <<"N", "L">>>>,
      <<<<"r", "o", "y", "a", "u", "m", "e", "-", "u", "n", "i">>, <<"G", "B">>>>,
      <<<<"u", "n", "i", "t", "e", "d", " ", "k", "i", "n", "g", "d", "o", "m">>, <<"G", "B">>>>,
      <<<<"u", "k">>, <<"G", "B">>>>,
      <<<<"g", "b">>, <<"G", "B">>>>,
      <<<<"a", "n", "g", "l", "e", "t", "e", "r", "r", "e">>, <<"G", "B">>>>,
      <<<<"e", "n", "g", "l", "a", "n", "d">>, <<"G", "B">>>>,
      <<<<"e", "t", "a", "t", "s", "-", "u", "n", "i", "s">>, <<"U", "S">>>>,
      <<<<"e_acute", "t", "a", "t", "s", "-", "u", "n", "i", "s">>, <<"U", "S">>>>,
      <<<<"u", "n", "i", "t", "e", "d", " ", "s", "t", "a", "t", "e", "s">>, <<"U", "S">>>>,
      <<<<"u", "s", "a">>, <<"U", "S">>>>,
      <<<<"u", "s">>, <<"U", "S">>>>,
      <<<<"p", "o", "r", "t", "u", "g", "a", "l">>, <<"P", "T">>>>,
      <<<<"p", "t">>, <<"P", "T">>>>,
      <<<<"a", "u", "t", "r", "i", "c", "h", "e">>, <<"A", "T">>>>,
      <<<<"a", "u", "s", "t", "r", "i", "a">>, <<"A", "T">>>>,
      <<<<"a", "t">>, <<"A", "T">>>>,
      <<<<"s", "u", "e", "d", "e">>, <<"S", "E">>>>,
      <<<<"s", "u", "e_grave", "d", "e">>, <<"S", "E">>>>,
      <<<<"s", "w", "e", "d", "e", "n">>, <<"S", "E">>>>,
      <<<<"s", "e">>, <<"S", "E">>>>,
      <<<<"d", "a", "n", "e", "m", "a", "r", "k">>, <<"D", "K">>>>,
      <<<<"d", "e", "n", "m", "a", "r", "k">>, <<"D", "K">>>>,
      <<<<"d", "k">>, <<"D", "K">>>>,
      <<<<"n", "o", "r", "v", "e", "g", "e">>, <<"N", "O">>>>,
      <<<<"n", "o", "r", "v", "e_grave", "g", "e">>, <<"N", "O">>>>,
      <<<<"n", "o", "r", "w", "a", "y">>, <<"N", "O">>>>,
      <<<<"n", "o">>, <<"N", "O">>>>,
      <<<<"f", "i", "n", "l", "a", "n", "d", "e">>, <<"F", "I">>>>,
      <<<<"f", "i", "n", "l", "a", "n", "d">>, <<"F", "I">>>>,
      <<<<"f", "i">>, <<"F", "I">>>>,
      <<<<"p", "o", "l", "o", "g", "n", "e">>, <<"P", "L">>>>,
      <<<<"p", "o", "l", "a", "n", "d">>, <<"P", "L">>>>,
      <<<<"p", "l">>, <<"P", "L">>>>,
      <<<<"r", "e", "p", "u", "b", "l", "i", "q", "u", "e", " ", "t", "c", "h", "e", "q", "u", "e">>, <<"C", "Z">>>>,
      <<<<"c", "z", "e", "c", "h", " ", "r", "e", "p", "u", "b", "l", "i", "c">>, <<"C", "Z">>>>,
      <<<<"c", "z", "e", "c", "h", "i", "a">>, <<"C", "Z">>>>,
      <<<<"c", "z">>, <<"C", "Z">>>>,
      <<<<"i", "r", "l", "a", "n", "d", "e">>, <<"I", "E">>>>,
      <<<<"i", "r", "e", "l", "a", "n", "d">>, <<"I", "E">>>>,
      <<<<"i", "e">>, <<"I", "E">>>>,
      <<<<"g", "r", "e", "c", "e">>, <<"G", "R">>>>,
      <<<<"g", "r", "e_grave", "c", "e">>, <<"G", "R">>>>,
      <<<<"g", "r", "e", "e", "c", "e">>, <<"G", "R">>>>,
      <<<<"g", "r">>, <<"G", "R">>>>,
      <<<<"r", "o", "u", "m", "a", "n", "i", "e">>, <<"R", "O">>>>,
      <<<<"r", "o", "m", "a", "n", "i", "a">>, <<"R", "O">>>>,
      <<<<"r", "o">>, <<"R", "O">>>>,
      <<<<"h", "o", "n", "g", "r", "i", "e">>, <<"H", "U">>>>,
      <<<<"h", "u", "n", "g", "a", "r", "y">>, <<"H", "U">>>>,
      <<<<"h", "u">>, <<"H", "U">>>>,
      <<<<"j", "a", "p", "o", "n">>, <<"J", "P">>>>,
      <<<<"j", "a", "p", "a", "n">>, <<"J", "P">>>>,
      <<<<"j", "p">>, <<"J", "P">>>>,
      <<<<"c", "h", "i", "n", "e">>, <<"C", "N">>>>,
      <<<<"c", "h", "i", "n", "a">>, <<"C", "N">>>>,
      <<<<"c", "n">>, <<"C", "N">>>>,
      <<<<"c", "a", "n", "a", "d", "a">>, <<"C", "A">>>>,
      <<<<"c", "a">>, <<"C", "A">>>>,
      <<<<"a", "u", "s", "t", "r", "a", "l", "i", "e">>, <<"A", "U">>>>,
      <<<<"a", "u", "s", "t", "r", "a", "l", "i", "a">>, <<"A", "U">>>>,
      <<<<"a", "u">>, <<"A", "U">>>>,
      <<<<"s", "i", "n", "g", "a", "p", "o", "u", "r">>, <<"S", "G">>>>,
      <<<<"s", "i", "n", "g", "a", "p", "o", "r", "e">>, <<"S", "G">>>>,
      <<<<"s", "g">>, <<"S", "G">>>>,
      <<<<"e", "m", "i", "r", "a", "t", "s", " ", "a", "r", "a", "b", "e", "s", " ", "u", "n", "i", "s">>, <<"A", "E">>>>,
      <<<<"u", "a", "e">>, <<"A", "E">>>>,
      <<<<"a", "e">>, <<"A", "E">>>>,
      <<<<"m", "o", "n", "a", "c", "o">>, <<"M", "C">>>>,
      <<<<"m", "c">>, <<"M", "C">>>>,
      <<<<"l", "i", "e", "c", "h", "t", "e", "n", "s", "t", "e", "i", "n">>, <<"L", "I">>>>,
      <<<<"l", "i">>, <<"L", "I">>>>,
      <<<<"a", "n", "d", "o", "r", "r", "e">>, <<"A", "D">>>>,
      <<<<"a", "n", "d", "o", "r", "r", "a">>, <<"A", "D">>>>,
      <<<<"a", "d">>, <<"A", "D">>>>,
      <<<<"i", "l", "e", " ", "m", "a", "u", "r", "i", "c", "e">>, <<"M", "U">>>>,
      <<<<"m", "a", "u", "r", "i", "t", "i", "u", "s">>, <<"M", "U">>>>,
      <<<<"m", "u">>, <<"M", "U">>>>,
      <<<<"m", "a", "r", "o", "c">>, <<"M", "A">>>>,
      <<<<"m", "o", "r", "o", "c", "c", "o">>, <<"M", "A">>>>,
      <<<<"m", "a">>, <<"M", "A">>>>
    }

\* COUNTRY_MAP.get(key, default)
CountryMapGet(key, default) ==
    IF \E e \in COUNTRY_MAP : e[1] = key
    THEN (CHOOSE e \in COUNTRY_MAP : e[1] = key)[2]
    ELSE default

\* _ISO_PATTERN = ^[A-Z]{2}$
IsIsoPattern(raw) ==
    Len(raw) = 2 /\ raw[1] \in UpperSet /\ raw[2] \in UpperSet

country_to_iso(value) ==
    IF Strip(value) = <<>> THEN <<>>
    ELSE IF IsIsoPattern(Upper(Strip(value))) THEN Upper(Strip(value))
    ELSE CountryMapGet(StripAccents(Lower(Upper(Strip(value)))),
                       CountryMapGet(Lower(Upper(Strip(value))), <<>>))


\* -------------------------------------------- rapidfuzz.fuzz.token_sort_ratio

\* code-point order of the characters a normalized name is made of
CharRank(c) ==
    IF c \in DigitSet THEN IndexOf(Digits, c)
    ELSE IF c \in UpperSet THEN 10 + IndexOf(UpperLetters, c)
    ELSE 0

\* a < b, for two texts (str.__lt__)
RECURSIVE TextLess(_, _)
TextLess(a, b) ==
    IF b = <<>> THEN FALSE
    ELSE IF a = <<>> THEN TRUE
    ELSE IF Head(a) = Head(b) THEN TextLess(Tail(a), Tail(b))
    ELSE CharRank(Head(a)) < CharRank(Head(b))

\* str.split(): the maximal runs of characters that are not white space
RECURSIVE Split(_, _)
Split(s, cur) ==
    IF s = <<>> THEN (IF cur = <<>> THEN <<>> ELSE <<cur>>)
    ELSE IF IsSpace(Head(s))
    THEN (IF cur = <<>> THEN <<>> ELSE <<cur>>) \o Split(Tail(s), <<>>)
    ELSE Split(Tail(s), Append(cur, Head(s)))

\* sorted(tokens): insertion of t into the sorted list, after its equals
RECURSIVE InsertSorted(_, _)
InsertSorted(sorted, t) ==
    IF sorted = <<>> THEN <<t>>
    ELSE IF TextLess(t, Head(sorted)) THEN <<t>> \o sorted
    ELSE <<Head(sorted)>> \o InsertSorted(Tail(sorted), t)

RECURSIVE SortTokens(_)
SortTokens(tokens) ==
    IF tokens = <<>> THEN <<>>
    ELSE InsertSorted(SortTokens(SubSeq(tokens, 1, Len(tokens) - 1)),
                      tokens[Len(tokens)])

\* " ".join(tokens)
RECURSIVE JoinTokens(_)
JoinTokens(tokens) ==
    IF tokens = <<>> THEN <<>>
    ELSE IF Len(tokens) = 1 THEN tokens[1]
    ELSE tokens[1] \o <<" ">> \o JoinTokens(Tail(tokens))

Max(a, b) == IF a >= b THEN a ELSE b

\* one row of the longest-common-subsequence table: acc holds the columns
\* 0..Len(acc)-1 of the row of character c, prev is the row above
RECURSIVE LcsRow(_, _, _, _)
LcsRow(prev, c, b, acc) ==
    LET j == Len(acc)
    IN IF j > Len(b) THEN acc
       ELSE LcsRow(prev, c, b,
                   Append(acc, IF c = b[j] THEN prev[j] + 1
                               ELSE Max(prev[j + 1], acc[j])))

RECURSIVE LcsRows(_, _, _, _)
LcsRows(a, b, i, prev) ==
    IF i > Len(a) THEN prev[Len(b) + 1]
    ELSE LcsRows(a, b, i + 1, LcsRow(prev, a[i], b, <<0>>))

\* length of the longest common subsequence of a and b
Lcs(a, b) == LcsRows(a, b, 1, [j \in 1..(Len(b) + 1) |-> 0])

\* fuzz.ratio: the normalized Indel similarity, 100 * 2*lcs / (len a + len b),
\* kept as the exact fraction num/den
ratio(a, b) ==
    IF Len(a) + Len(b) = 0 THEN [num |-> 100, den |-> 1]
    ELSE [num |-> 200 * Lcs(a, b), den |-> Len(a) + Len(b)]

token_sort_ratio(s1, s2) ==
    ratio(JoinTokens(SortTokens(Split(s1, <<>>))),
          JoinTokens(SortTokens(Split(s2, <<>>))))

\* score >= t, score < t, a > b and int(score), on exact fractions
ScoreGE(score, t) == score.num >= t * score.den

ScoreLT(score, t) == score.num < t * score.den

ScoreGT(a, b) == a.num * b.den > b.num * a.den

ScoreInt(score) == score.num \div score.den

\* -------------------------------------------------------------- the inputs

\* registration numbers
K10 == <<"1", "5", "1", "3", "2", "1", "0", "1", "5", "1">>

K11 == <<"0">> \o K10

K12 == <<"0", "0">> \o K10

K3 == <<"1", "5", "1">>

K4 == <<"0", "1", "5", "1">>

ACTIVE == <<"A", "C", "T", "I", "V", "E">>

ISSUED == <<"I", "S", "S", "U", "E", "D">>

FR == <<"F", "R">>

ACME == <<"A", "C", "M", "E">>

BETA == <<"B", "E", "T", "A">>

OMEGA == <<"O", "M", "E", "G", "A">>

LAPSED == <<"L", "A", "P", "S", "E", "D">>

INACTIVE == <<"I", "N", "A", "C", "T", "I", "V", "E">>

\* a row of the reference file, its columns already the logical ones
Gleif(lei, name, country, entity_status, lei_status, ra_entity) ==
    [lei |-> lei, name |-> name, country |-> country,
     entity_status |-> entity_status, lei_status |-> lei_status,
     ra_id |-> <<"R", "A">>, ra_entity |-> ra_entity,
     renewal_date |-> <<"2", "0", "3", "0">>]

\* the reference rows a file is made of
GleifUniverse ==
    { Gleif(<<"L", "1">>, ACME, FR, ACTIVE, ISSUED, K11),
      Gleif(<<"l", "2">>, BETA, <<"f", "r">>, <<"A", "c", "t", "i", "v", "e">>, ISSUED, K10),
      Gleif(<<>>, BETA, FR, ACTIVE, LAPSED, <<"R", "C", "S", " ", "P", "A", "U", " ">> \o K10),
      Gleif(<<"L", "1">>, ACME \o <<" ", "S", ".", "A", ".">>, FR, INACTIVE, ISSUED, K12),
      Gleif(<<"L", "5">>, ACME \o <<"X">>, FR, ACTIVE, ISSUED, K4) }

\* a row of the input spreadsheet
Input(rcs, name, pays, lei) == [rcs |-> rcs, name |-> name, pays |-> pays, lei |-> lei]

\* the rows an input spreadsheet is made of
InputUniverse ==
    { Input(K10, ACME \o <<" ", "S", "A">>, <<"F", "r", "a", "n", "c", "e">>, <<>>),
      Input(K3, OMEGA, <<"D", "E">>, <<" ">>),
      Input(<<"1", "5", "1", "3", "-", "2", "1", "0", "1", "5", "1">>, <<>>, FR,
            <<"L", "2">>),
      Input(K10, OMEGA, FR, <<"L", "5">>),
      Input(<<" ">>, <<"a", "c", "m", "e">>, <<"f", "r">>, <<"l", "5", " ">>) }

\* the sequences of at most n elements of S, and those without repetition
SeqsUpTo(S, n) == UNION {[1..k -> S] : k \in 0..n}

DistinctSeqsUpTo(S, n) ==
    {q \in SeqsUpTo(S, n) : \A i, j \in 1..Len(q) : i # j => q[i] # q[j]}

\* the bounds of the model
MaxGleif == 2

MaxRows == 2

MaxChunk == 2

\* GLEIF_CHUNK_SIZE
GLEIF_CHUNK_SIZE == 100000

\* the values of match_companies' threshold parameters
RcsFuzzyThresholds == {0, 70, 88}

FuzzyThresholds == {80}


\* ------------------------------------------------- the functions, tabulated
\* The pure text functions are evaluated once on the texts of the universes;
\* on any other text the function itself is evaluated.

RcsTexts ==
    {g.ra_entity : g \in GleifUniverse} \cup {Strip(r.rcs) : r \in InputUniverse}

NameTexts ==
    {g.name : g \in GleifUniverse} \cup {Strip(r.name) : r \in InputUniverse}

CountryTexts == {Strip(r.pays) : r \in InputUniverse}

NormalizeRcsTable == [value \in RcsTexts |-> normalize_rcs(value)]

NormalizeNameTable == [value \in NameTexts |-> normalize_name(value)]

CountryToIsoTable == [value \in CountryTexts |-> country_to_iso(value)]

NormRcs(value) ==
    IF value \in RcsTexts THEN NormalizeRcsTable[value] ELSE normalize_rcs(value)

NormName(value) ==
    IF value \in NameTexts THEN NormalizeNameTable[value] ELSE normalize_name(value)

CountryIso(value) ==
    IF value \in CountryTexts THEN CountryToIsoTable[value]
    ELSE country_to_iso(value)

NormNames == {NormalizeNameTable[value] : value \in NameTexts}

TokenSortRatioTable ==
    [pair \in NormNames \X NormNames |-> token_sort_ratio(pair[1], pair[2])]

TokenSortRatio(s1, s2) ==
    IF s1 \in NormNames /\ s2 \in NormNames THEN TokenSortRatioTable[<<s1, s2>>]
    ELSE token_sort_ratio(s1, s2)

\* ------------------------------------------------------------- dictionaries
\* A dict is the sequence of its items <<key, value>> in insertion order.

DictKeys(d) == {d[i][1] : i \in 1..Len(d)}

DictGet(d, key, default) ==
    IF key \in DictKeys(d)
    THEN d[CHOOSE i \in 1..Len(d) : d[i][1] = key][2]
    ELSE default

\* d[key] = value: a new key is appended, a known key keeps its place
DictSet(d, key, value) ==
    IF key \in DictKeys(d)
    THEN [i \in 1..Len(d) |-> IF d[i][1] = key THEN <<key, value>> ELSE d[i]]
    ELSE Append(d, <<key, value>>)

\* Python's None, where a reference row may stand
None == [none |-> TRUE]

\* df.iloc[i]: the rows of a table are numbered from 0
iloc(df, i) == df[i + 1]

\* --------------------------------------------------------------- indices

\* d.setdefault(key, []).append(i)
DictAppend(d, key, i) == DictSet(d, key, Append(DictGet(d, key, <<>>), i))

\* build_indices, first loop: the two indices after row i of the table
IndexRcs(rcs_idx, df, i) ==
    IF NormRcs(iloc(df, i).ra_entity) # <<>>
    THEN DictAppend(rcs_idx, NormRcs(iloc(df, i).ra_entity), i)
    ELSE rcs_idx

\* variant: lei_index.setdefault(key_lei, i), the first row of a LEI kept
IndexLeiKeepingFirst(lei_idx, df, i) ==
    IF Upper(Strip(iloc(df, i).lei)) # <<>>
    THEN DictSet(lei_idx, Upper(Strip(iloc(df, i).lei)),
                 DictGet(lei_idx, Upper(Strip(iloc(df, i).lei)), i))
    ELSE lei_idx

IndexLei(lei_idx, df, i) ==
    IF Upper(Strip(iloc(df, i).lei)) # <<>>
    THEN DictSet(lei_idx, Upper(Strip(iloc(df, i).lei)), i)
    ELSE lei_idx

\* name_idx.setdefault(c, {}).setdefault(n, []).append(i)
DictAppendIn(name_idx, c, n, i) ==
    DictSet(name_idx, c, DictAppend(DictGet(name_idx, c, <<>>), n, i))

\* build_indices, second loop: the index after row i of the table
IndexName(name_idx, df, i) ==
    IF Upper(Strip(iloc(df, i).country)) # <<>> /\ NormName(iloc(df, i).name) # <<>>
    THEN DictAppendIn(name_idx, Upper(Strip(iloc(df, i).country)),
                      NormName(iloc(df, i).name), i)
    ELSE name_idx

\* ---------------------------------------------------------------- searches

\* variant: indices[-1], the last row listed under the key
search_by_rcs_last(rcs_norm, rcs_index, df) ==
    IF rcs_norm = <<>> THEN None
    ELSE IF DictGet(rcs_index, rcs_norm, <<>>) # <<>>
    THEN iloc(df, DictGet(rcs_index, rcs_norm, <<>>)[
                      Len(DictGet(rcs_index, rcs_norm, <<>>))])
    ELSE None

search_by_rcs(rcs_norm, rcs_index, df) ==
    IF rcs_norm = <<>> THEN None
    ELSE IF DictGet(rcs_index, rcs_norm, <<>>) # <<>>
    THEN iloc(df, DictGet(rcs_index, rcs_norm, <<>>)[1])
    ELSE None

\* variant: int(x), the fraction dropped
RoundDown(num, den) == num \div den

\* round(x) of Python 3 for x = num/den >= 0: to the nearest, a half to even
Round(num, den) ==
    LET q == num \div den
        r == num % den
    IN IF 2 * r < den THEN q
       ELSE IF 2 * r > den THEN q + 1
       ELSE IF q % 2 = 0 THEN q ELSE q + 1

\* variant: score >= best_score, the last of the best keys kept
RECURSIVE RcsFuzzyScanLastWins(_, _, _, _, _, _)
RcsFuzzyScanLastWins(rcs_norm, rcs_index, df, threshold, i, best) ==
    IF i > Len(rcs_index) THEN best
    ELSE LET key == rcs_index[i][1]
             idxs == rcs_index[i][2]
             n == Len(rcs_norm)
             key_len == Len(key)
             score == Round(n * 100, key_len)
             skip == key_len < n \/ (key_len - n) > 2
             better == /\ ~skip
                       /\ Contains(key, rcs_norm)
                       /\ score >= threshold
                       /\ score >= best.score
         IN RcsFuzzyScanLastWins(rcs_norm, rcs_index, df, threshold, i + 1,
               IF better THEN [row |-> iloc(df, idxs[1]), score |-> score]
               ELSE best)

\* the loop of search_by_rcs_fuzzy over rcs_index.items(), from item i on
RECURSIVE RcsFuzzyScan(_, _, _, _, _, _)
RcsFuzzyScan(rcs_norm, rcs_index, df, threshold, i, best) ==
    IF i > Len(rcs_index) THEN best
    ELSE LET key == rcs_index[i][1]
             idxs == rcs_index[i][2]
             n == Len(rcs_norm)
             key_len == Len(key)
             score == Round(n * 100, key_len)
             skip == key_len < n \/ (key_len - n) > 2
             better == /\ ~skip
                       /\ Contains(key, rcs_norm)
                       /\ score >= threshold
                       /\ score > best.score
         IN RcsFuzzyScan(rcs_norm, rcs_index, df, threshold, i + 1,
               IF better THEN [row |-> iloc(df, idxs[1]), score |-> score]
               ELSE best)

search_by_rcs_fuzzy(rcs_norm, rcs_index, df, threshold) ==
    IF rcs_norm = <<>> \/ Len(rcs_norm) < 4 THEN [row |-> None, score |-> 0]
    ELSE RcsFuzzyScan(rcs_norm, rcs_index, df, threshold, 1,
                      [row |-> None, score |-> 0])

\* variant: the key is looked up as typed, without .upper()
search_by_lei_as_typed(lei_val, lei_index, df) ==
    LET key == Strip(lei_val)
        idx == DictGet(lei_index, key, -1)
    IN IF key = <<>> THEN None
       ELSE IF idx # -1 THEN iloc(df, idx) ELSE None

search_by_lei(lei_val, lei_index, df) ==
    LET key == Upper(Strip(lei_val))
        idx == DictGet(lei_index, key, -1)
    IN IF key = <<>> THEN None
       ELSE IF idx # -1 THEN iloc(df, idx) ELSE None

\* process.extractOne(query, choices, scorer=token_sort_ratio, score_cutoff):
\* the first choice of the highest score among those reaching the cutoff
\* the best choice so far once a choice of that score has been seen
BestChoice(best, choice, score, score_cutoff) ==
    IF ScoreGE(score, score_cutoff) /\ (best.found => ScoreGT(score, best.score))
    THEN [found |-> TRUE, choice |-> choice, score |-> score]
    ELSE best

RECURSIVE extractOne(_, _, _, _, _)
extractOne(query, choices, score_cutoff, i, best) ==
    IF i > Len(choices) THEN best
    ELSE extractOne(query, choices, score_cutoff, i + 1,
                    BestChoice(best, choices[i],
                               TokenSortRatio(query, choices[i]), score_cutoff))

\* list(country_names.keys())
DictKeyList(d) == [i \in 1..Len(d) |-> d[i][1]]

\* what search_by_name_country returns on the result of extractOne
BestNameRow(country_names, result, df) ==
    IF ~result.found THEN [row |-> None, score |-> 0]
    ELSE [row |-> iloc(df, DictGet(country_names, result.choice, <<>>)[1]),
          score |-> ScoreInt(result.score)]

search_by_name_country(name_norm, iso_country, name_index, df, threshold) ==
    IF name_norm = <<>> \/ iso_country = <<>> THEN [row |-> None, score |-> 0]
    ELSE IF DictGet(name_index, iso_country, <<>>) = <<>>
    THEN [row |-> None, score |-> 0]
    ELSE BestNameRow(DictGet(name_index, iso_country, <<>>),
                     extractOne(name_norm,
                                DictKeyList(DictGet(name_index, iso_country, <<>>)),
                                threshold, 1,
                                [found |-> FALSE, choice |-> <<>>,
                                 score |-> [num |-> 0, den |-> 1]]),
                     df)


\* ------------------------------------------------------- discordance check

\* name_threshold of _check_lei_discordance
NAME_AGREEMENT_THRESHOLD == 70

\* _check_lei_discordance: the list of issues stands for the text that joins
\* them with " | " (the text is empty iff the list is); is_disc is bool(issues)

\* the comparison of the two LEIs
LeiIssue(gleif_row, client_lei) ==
    LET lei_client == Upper(Strip(client_lei))
        lei_gleif == Upper(Strip(gleif_row.lei))
    IN IF lei_client # <<>> /\ lei_gleif # <<>> /\ lei_client # lei_gleif
       THEN << [field |-> "LEI", client |-> Strip(client_lei),
                gleif |-> gleif_row.lei] >>
       ELSE <<>>

\* the comparison of the two registration numbers, normalized
RcsIssue(gleif_row, rcs_client, rcs_norm_c, rcs_norm_g) ==
    IF /\ rcs_client # <<>>
       /\ rcs_norm_c # <<>> /\ rcs_norm_g # <<>> /\ rcs_norm_c # rcs_norm_g
    THEN << [field |-> "RCS", client |-> rcs_client,
             gleif |-> gleif_row.ra_entity] >>
    ELSE <<>>

\* the similarity of the two names, normalized
NameIssue(gleif_row, name_client, name_norm_c, name_norm_g, name_threshold) ==
    IF /\ name_client # <<>>
       /\ name_norm_c # <<>> /\ name_norm_g # <<>>
       /\ ScoreLT(TokenSortRatio(name_norm_c, name_norm_g), name_threshold)
    THEN << [field |-> "Nom", client |-> name_client,
             gleif |-> gleif_row.name,
             similarity |-> TokenSortRatio(name_norm_c, name_norm_g)] >>
    ELSE <<>>

\* variant: the record's country compared as it is written
CountryIssueAsTyped(gleif_row, client_iso) ==
    LET country_g == Strip(gleif_row.country)
    IN IF /\ Strip(client_iso) # <<>>
          /\ country_g # <<>> /\ Upper(client_iso) # country_g
       THEN << [field |-> "Pays", client |-> client_iso, gleif |-> country_g] >>
       ELSE <<>>

\* the comparison of the two countries
CountryIssue(gleif_row, client_iso) ==
    LET country_g == Upper(Strip(gleif_row.country))
    IN IF /\ Strip(client_iso) # <<>>
          /\ country_g # <<>> /\ Upper(client_iso) # country_g
       THEN << [field |-> "Pays", client |-> client_iso, gleif |-> country_g] >>
       ELSE <<>>

\* issues, after the four comparisons
Issues(gleif_row, client_rcs_raw, client_name_raw, client_iso, client_lei, name_threshold) ==
    LeiIssue(gleif_row, client_lei)
    \o RcsIssue(gleif_row, Strip(client_rcs_raw),
                NormRcs(Strip(client_rcs_raw)), NormRcs(gleif_row.ra_entity))
    \o NameIssue(gleif_row, Strip(client_name_raw),
                 NormName(Strip(client_name_raw)), NormName(gleif_row.name),
                 name_threshold)
    \o CountryIssue(gleif_row, client_iso)

\* (disc_text, is_disc) of a list of issues
Discordance(issues) == [disc_text |-> issues, is_disc |-> issues # <<>>]

_check_lei_discordance(gleif_row, client_rcs_raw, client_name_raw, client_iso, client_lei, name_threshold) ==
    Discordance(Issues(gleif_row, client_rcs_raw, client_name_raw, client_iso,
                       client_lei, name_threshold))


\* ---------------------------------------------------------------- the state

VARIABLES
    dialogs,              \* the UpdateDialog instances created so far
    shown,                \* the instance on screen, 0 when none is
    running,              \* per instance, its flag _running
    has_meta,             \* per instance, whether _meta is set
    btn_check,            \* per instance, the state of its button btn_check
    btn_download,         \* per instance, the state of its button btn_download
    threads,              \* the worker threads started so far
    workers,              \* the worker threads that have not ended
    tk_queue,             \* the callbacks scheduled with after(0, ...)
    slim_file,            \* prepare_slim: the lines of the file at output_csv
    total_written,        \* prepare_slim: total_written
    first_chunk,          \* prepare_slim: first_chunk
    input_columns,        \* the columns of the input spreadsheet
    col_lei,              \* parameter col_lei: the name of a column, "" for
                          \* None
    raised,               \* the exception the run raised, None when it did not
    gleif_suffix,         \* path.suffix.lower() of the reference file
    probe,                \* a pure function called on its own: its argument
                          \* and the values it returned, call after call
    gleif_file,           \* the rows of the reference file
    chunksize,            \* the chunksize of the CSV reader
    chunks_read,          \* load_gleif: chunks read so far
    chunks,               \* load_gleif: the filtered chunks kept so far
    df_gleif,             \* the loaded reference table
    rcs_index,            \* {normalized id -> [row numbers]}
    name_index,           \* {country -> {normalized name -> [row numbers]}}
    lei_index,            \* {LEI -> row number}
    index_row,            \* build_indices: the row its current loop is at
    df_input,             \* the rows of the input spreadsheet iterated so far
    active_only,          \* parameter active_only
    has_lei_col,          \* col_lei is given and is a column of the input
    fuzzy_threshold,      \* parameter fuzzy_threshold
    rcs_fuzzy_threshold,  \* parameter rcs_fuzzy_threshold
    idx,                  \* match_companies: input rows iterated so far
    results,              \* match_companies: the output records so far
    calls,                \* per input row, the searches it made, in order
    df_output,            \* the exported table
    pc                    \* "start", "load", "index_rcs_lei", "index_name",
                          \* "match", "done", "ValueError",
                          \* "ZeroDivisionError", "probe"

\* the variables of the update dialogs
update_vars ==
    <<dialogs, shown, running, has_meta, btn_check, btn_download, threads,
      workers, tk_queue>>

\* the variables of prepare_slim
slim_vars == <<slim_file, total_written, first_chunk>>

vars ==
    <<update_vars, slim_vars, input_columns, col_lei, raised, gleif_suffix, probe, gleif_file, chunksize, chunks_read, chunks, df_gleif, rcs_index,
      name_index, lei_index, index_row, df_input, active_only, has_lei_col,
      fuzzy_threshold, rcs_fuzzy_threshold, idx, results, calls, df_output, pc>>

\* ------------------------------------------- match_companies, its first steps

\* the default values of col_rcs, col_name and col_pays, and a column of LEIs
COL_RCS == "RCS"

COL_NAME == "NomEntreprise"

COL_PAYS == "Pays"

COL_LEI == "LEI"

\* required: the three column parameters, in their order
REQUIRED_COLUMNS == <<COL_RCS, COL_NAME, COL_PAYS>>

ALL_COLUMNS == {COL_RCS, COL_NAME, COL_PAYS, COL_LEI}

\* the input spreadsheets and col_lei parameters of the model: their columns
InputConfigs ==
    { [columns |-> ALL_COLUMNS, col_lei |-> COL_LEI],
      [columns |-> ALL_COLUMNS, col_lei |-> ""],
      [columns |-> {COL_NAME, COL_PAYS, COL_LEI}, col_lei |-> COL_LEI],
      [columns |-> {COL_RCS, COL_LEI}, col_lei |-> ""],
      [columns |-> {}, col_lei |-> COL_LEI] }

\* the suffixes of the reference files of the model
GleifSuffixes == {".csv", ".json", ".txt"}

\* missing_cols: the required columns the spreadsheet has not, in their order
MissingCols(columns) ==
    SelectSeq(REQUIRED_COLUMNS, LAMBDA c : c \notin columns)

\* variant: the missing columns are not looked at
ValidateColumnsSkipped ==
    /\ pc = "start"
    /\ has_lei_col' = (col_lei # "" /\ col_lei \in input_columns)
    /\ pc' = "load"
    /\ UNCHANGED <<update_vars, slim_vars, input_columns, col_lei, raised, gleif_suffix, probe,
                   gleif_file, chunksize, chunks_read, chunks, df_gleif,
                   rcs_index, name_index, lei_index, index_row, df_input,
                   active_only, fuzzy_threshold, rcs_fuzzy_threshold, idx,
                   results, calls, df_output>>

\* the validation of the required columns and the choice of the LEI mode
ValidateColumns ==
    /\ pc = "start"
    /\ IF MissingCols(input_columns) # <<>>
       THEN /\ raised' = [type |-> "ValueError",
                          missing_cols |-> MissingCols(input_columns),
                          available |-> input_columns]
            /\ pc' = "ValueError"
            /\ UNCHANGED has_lei_col
       ELSE /\ has_lei_col' = (col_lei # "" /\ col_lei \in input_columns)
            /\ pc' = "load"
            /\ UNCHANGED raised
    /\ UNCHANGED <<update_vars, slim_vars, input_columns, col_lei, gleif_suffix, probe, gleif_file,
                   chunksize, chunks_read, chunks, df_gleif, rcs_index,
                   name_index, lei_index, index_row, df_input, active_only,
                   fuzzy_threshold, rcs_fuzzy_threshold, idx, results, calls,
                   df_output>>

\* ------------------------------------------------------------- load_gleif

\* variant: a mask that keeps a row as soon as one of its two statuses is right
ActiveOrIssued(row) ==
    Upper(row.entity_status) = ACTIVE \/ Upper(row.lei_status) = ISSUED

\* the mask of the active filter: entity ACTIVE and LEI ISSUED
ActiveIssued(row) ==
    Upper(row.entity_status) = ACTIVE /\ Upper(row.lei_status) = ISSUED

\* chunk[mask] when the filter is asked for
FilterRows(rows, flag) == IF flag THEN SelectSeq(rows, ActiveIssued) ELSE rows

\* _finalize_gleif_df: the whole table filtered in one pass
_finalize_gleif_df(raw, flag) == FilterRows(raw, flag)

\* pd.concat(chunks, ignore_index=True)
RECURSIVE Concat(_)
Concat(list) == IF list = <<>> THEN <<>> ELSE Head(list) \o Concat(Tail(list))

\* variant: the reference file loaded with the flag as the caller passed it
ActiveOnlyLoadAsPassed == active_only

\* _active_only_load of match_companies
ActiveOnlyLoad == IF has_lei_col THEN FALSE ELSE active_only

\* the rows the reader has not handed out yet
RowsLeft == Len(gleif_file) - chunks_read * chunksize

\* variant: a reader whose chunks start on the last row of the chunk before
NextChunkOverlapping ==
    LET first == IF chunks_read = 0 THEN 1 ELSE chunks_read * chunksize
        last == IF RowsLeft > chunksize THEN chunks_read * chunksize + chunksize
                ELSE Len(gleif_file)
    IN SubSeq(gleif_file, first, last)

\* the chunk the reader hands out next: the next chunksize rows, or the rest
NextChunk ==
    LET first == chunks_read * chunksize + 1
        last == IF RowsLeft > chunksize THEN first + chunksize - 1
                ELSE Len(gleif_file)
    IN SubSeq(gleif_file, first, last)

\* one turn of the loop "for chunk in reader"
LoadChunk ==
    /\ pc = "load"
    /\ gleif_suffix # ".json"
    /\ RowsLeft > 0
    /\ LET chunk == FilterRows(NextChunk, ActiveOnlyLoad)
       IN chunks' = IF chunk # <<>> THEN Append(chunks, chunk) ELSE chunks
    /\ chunks_read' = chunks_read + 1
    /\ UNCHANGED <<update_vars, slim_vars, input_columns, col_lei, raised, gleif_suffix, probe,
                   gleif_file, chunksize, df_gleif, rcs_index, name_index,
                   lei_index, index_row, df_input, active_only, has_lei_col,
                   fuzzy_threshold, rcs_fuzzy_threshold, idx, results, calls,
                   df_output, pc>>

\* the end of load_gleif: the table is returned to match_companies, which
\* calls build_indices on it
LoadDone ==
    /\ pc = "load"
    /\ gleif_suffix # ".json"
    /\ RowsLeft <= 0
    /\ LET df == IF chunks = <<>> THEN <<>> ELSE Concat(chunks)
       IN /\ df_gleif' = df
          /\ pc' = IF df = <<>> THEN "match" ELSE "index_rcs_lei"
    /\ UNCHANGED <<update_vars, slim_vars, input_columns, col_lei, raised, gleif_suffix, probe,
                   gleif_file, chunksize, chunks_read, chunks, rcs_index,
                   name_index, lei_index, index_row, df_input, active_only,
                   has_lei_col, fuzzy_threshold, rcs_fuzzy_threshold, idx,
                   results, calls, df_output>>

\* load_gleif on a file of suffix ".json": the whole file read and filtered
LoadJson ==
    /\ pc = "load"
    /\ gleif_suffix = ".json"
    /\ df_gleif' = _finalize_gleif_df(gleif_file, ActiveOnlyLoad)
    /\ pc' = IF _finalize_gleif_df(gleif_file, ActiveOnlyLoad) = <<>>
             THEN "match" ELSE "index_rcs_lei"
    /\ UNCHANGED <<update_vars, slim_vars, input_columns, col_lei, raised, gleif_suffix, probe,
                   gleif_file, chunksize, chunks_read, chunks, rcs_index,
                   name_index, lei_index, index_row, df_input, active_only,
                   has_lei_col, fuzzy_threshold, rcs_fuzzy_threshold, idx,
                   results, calls, df_output>>

\* ------------------------------------------------------------ prepare_slim

\* the header line of a CSV file of the logical columns (SLIM_COLUMNS): each
\* cell holds the name of its column
SlimHeader ==
    [lei |-> <<"l", "e", "i">>,
     name |-> <<"n", "a", "m", "e">>,
     country |-> <<"c", "o", "u", "n", "t", "r", "y">>,
     entity_status |-> <<"e", "n", "t", "i", "t", "y", "_", "s", "t", "a", "t", "u", "s">>,
     lei_status |-> <<"l", "e", "i", "_", "s", "t", "a", "t", "u", "s">>,
     ra_id |-> <<"r", "a", "_", "i", "d">>,
     ra_entity |-> <<"r", "a", "_", "e", "n", "t", "i", "t", "y">>,
     renewal_date |-> <<"r", "e", "n", "e", "w", "a", "l", "_", "d", "a", "t", "e">>]

\* what the file at output_csv may hold before the call: nothing, a file
\* written by an earlier call, other lines
SlimPriorContents ==
    { <<>>,
      <<SlimHeader, Gleif(<<"L", "9">>, OMEGA, FR, ACTIVE, ISSUED, K3)>>,
      <<Gleif(<<"L", "9">>, OMEGA, FR, ACTIVE, ISSUED, K3)>> }

\* one turn of prepare_slim's loop "for chunk in reader": a chunk left
\* non-empty by the filter is written, with the header and over the file for
\* the first one, after the lines of the file for the others
SlimChunk ==
    /\ pc = "slim"
    /\ RowsLeft > 0
    /\ \E chunk \in {FilterRows(NextChunk, active_only)} :
          /\ slim_file' = IF chunk = <<>> THEN slim_file
                           ELSE IF first_chunk THEN <<SlimHeader>> \o chunk
                           ELSE slim_file \o chunk
          /\ total_written' = total_written + Len(chunk)
          /\ first_chunk' = (first_chunk /\ chunk = <<>>)
    /\ chunks_read' = chunks_read + 1
    /\ UNCHANGED <<update_vars, input_columns, col_lei, raised, gleif_suffix, probe,
                   gleif_file, chunksize, chunks, df_gleif, rcs_index,
                   name_index, lei_index, index_row, df_input, active_only,
                   has_lei_col, fuzzy_threshold, rcs_fuzzy_threshold, idx,
                   results, calls, df_output, pc>>

\* the end of prepare_slim: total_written is returned
SlimReturn ==
    /\ pc = "slim"
    /\ RowsLeft <= 0
    /\ pc' = "slim_done"
    /\ UNCHANGED <<update_vars, slim_vars, input_columns, col_lei, raised, gleif_suffix,
                   probe, gleif_file, chunksize, chunks_read, chunks, df_gleif,
                   rcs_index, name_index, lei_index, index_row, df_input,
                   active_only, has_lei_col, fuzzy_threshold,
                   rcs_fuzzy_threshold, idx, results, calls, df_output>>

\* build_indices: one turn of its first loop, the second loop next after the
\* last row
IndexRcsLeiNext ==
    /\ pc = "index_rcs_lei"
    /\ rcs_index' = IndexRcs(rcs_index, df_gleif, index_row)
    /\ lei_index' = IndexLei(lei_index, df_gleif, index_row)
    /\ index_row' = IF index_row + 1 < Len(df_gleif) THEN index_row + 1 ELSE 0
    /\ pc' = IF index_row + 1 < Len(df_gleif) THEN pc ELSE "index_name"
    /\ UNCHANGED <<update_vars, slim_vars, input_columns, col_lei, raised, gleif_suffix, probe,
                   gleif_file, chunksize, chunks_read, chunks, df_gleif,
                   name_index, df_input, active_only, has_lei_col,
                   fuzzy_threshold, rcs_fuzzy_threshold, idx, results, calls,
                   df_output>>

\* build_indices: one turn of its second loop, the indices returned after the
\* last row
IndexNameNext ==
    /\ pc = "index_name"
    /\ name_index' = IndexName(name_index, df_gleif, index_row)
    /\ index_row' = IF index_row + 1 < Len(df_gleif) THEN index_row + 1 ELSE 0
    /\ pc' = IF index_row + 1 < Len(df_gleif) THEN pc ELSE "match"
    /\ UNCHANGED <<update_vars, slim_vars, input_columns, col_lei, raised, gleif_suffix, probe,
                   gleif_file, chunksize, chunks_read, chunks, df_gleif,
                   rcs_index, lei_index, df_input, active_only, has_lei_col,
                   fuzzy_threshold, rcs_fuzzy_threshold, idx, results, calls,
                   df_output>>

\* ---------------------------------------------------------- match_companies

LEI_VALIDE == "LEI Valide"

LEI_DISCORDANT == "LEI Discordant"

LEI_INVALIDE == "Non trouvé (LEI invalide)"

EXACT_RCS == "Exact - RCS"

APPROX_RCS == "Approx - RCS"

APPROX_NOM_PAYS == "Approx - Nom/Pays"

NON_TROUVE == "Non trouvé"

\* the values of ScoreCorrespondance: "", a number, "RCS:r% / Nom:n%", "RCS:r%"
NoScore == [kind |-> "empty"]

NumScore(n) == [kind |-> "number", value |-> n]

RcsNameScore(rcs_score, name_sim) ==
    [kind |-> "rcs/nom", rcs |-> rcs_score, nom |-> name_sim]

RcsScore(rcs_score) == [kind |-> "rcs", rcs |-> rcs_score]

\* one search made for a row: which, the row and the score it returned (0 when
\* it returns no score), whether the row was taken as the input row's match
Call(fn, row, score, accepted) ==
    [fn |-> fn, row |-> row, score |-> score, accepted |-> accepted]

\* the values read and normalized at the top of the loop body
RowValues(row) ==
    LET rcs_raw == Strip(row.rcs)
        name_raw == Strip(row.name)
        pays_raw == Strip(row.pays)
    IN [rcs_raw |-> rcs_raw, name_raw |-> name_raw, pays_raw |-> pays_raw,
        lei_exist |-> IF has_lei_col THEN Strip(row.lei) ELSE <<>>,
        rcs_norm |-> NormRcs(rcs_raw),
        name_norm |-> NormName(name_raw),
        iso |-> CountryIso(pays_raw)]

\* the locals of the loop body before the two modes
RowStart ==
    [gleif_row |-> None, match_type |-> NON_TROUVE, match_score |-> NoScore,
     disc_text |-> <<>>, calls |-> <<>>]

\* the searches of a row on the indices of the loaded table
ByLei(v) == search_by_lei(v.lei_exist, lei_index, df_gleif)

ByRcs(v) == search_by_rcs(v.rcs_norm, rcs_index, df_gleif)

ByRcsFuzzy(v) ==
    search_by_rcs_fuzzy(v.rcs_norm, rcs_index, df_gleif, rcs_fuzzy_threshold)

ByNameCountry(v) ==
    search_by_name_country(v.name_norm, v.iso, name_index, df_gleif,
                           fuzzy_threshold)

\* the discordance check of a row against the reference row found for it
CheckDiscordance(v, gleif_row) ==
    _check_lei_discordance(gleif_row, v.rcs_raw, v.name_raw, v.iso, v.lei_exist,
                           NAME_AGREEMENT_THRESHOLD)

\* variant: a declared LEI found in the index is given the score 100
LeiFoundScored(st, gleif_row, disc) ==
    [st EXCEPT !.gleif_row = gleif_row,
               !.disc_text = disc.disc_text,
               !.match_score = NumScore(100),
               !.match_type = IF disc.is_disc THEN LEI_DISCORDANT ELSE LEI_VALIDE]

\* mode 1, the declared LEI is in the index: disc is what the check returned
LeiFound(st, gleif_row, disc) ==
    [st EXCEPT !.gleif_row = gleif_row,
               !.disc_text = disc.disc_text,
               !.match_type = IF disc.is_disc THEN LEI_DISCORDANT ELSE LEI_VALIDE]

\* variant: the fallback keeps only ACTIVE and ISSUED rows, as mode 2 does
FallbackRcsActiveOnly(st, v, exact, fuzzy) ==
    IF v.rcs_norm # <<>>
    THEN LET ok == exact # None /\ (active_only => ActiveIssued(exact))
         IN [st EXCEPT !.gleif_row = IF ok THEN exact ELSE None,
                       !.calls = Append(@, Call("search_by_rcs", exact, 0, ok))]
    ELSE st

\* mode 1, fallback: the exact and then the approximate registration number;
\* exact and fuzzy are what the two searches return
FallbackRcs(st, v, exact, fuzzy) ==
    IF v.rcs_norm # <<>>
    THEN IF exact = None /\ rcs_fuzzy_threshold > 0
         THEN [st EXCEPT !.gleif_row = fuzzy.row,
                         !.calls = @ \o <<Call("search_by_rcs", exact, 0, FALSE),
                                          Call("search_by_rcs_fuzzy", fuzzy.row,
                                               fuzzy.score, fuzzy.row # None)>>]
         ELSE [st EXCEPT !.gleif_row = exact,
                         !.calls = Append(@, Call("search_by_rcs", exact, 0,
                                                  exact # None))]
    ELSE st

\* mode 1, fallback: name and country; found is what the search returns
FallbackName(st, v, found) ==
    IF st.gleif_row = None /\ v.name_norm # <<>>
    THEN [st EXCEPT !.gleif_row = found.row,
                    !.calls = Append(@, Call("search_by_name_country",
                                             found.row, found.score,
                                             found.row # None))]
    ELSE st

\* mode 1, fallback: what is made of the row found, if any; disc is what the
\* check returns on it
FallbackResult(st, v, disc) ==
    IF st.gleif_row # None
    THEN [st EXCEPT !.disc_text =
                        IF disc.disc_text = <<>>
                        THEN << [field |-> "LEI", client |-> v.lei_exist,
                                 gleif |-> Strip(st.gleif_row.lei)] >>
                        ELSE disc.disc_text,
                    !.match_type = LEI_DISCORDANT]
    ELSE [st EXCEPT !.match_type = LEI_INVALIDE]

\* mode 1, fallback: the searches and then the check on the row they found
Fallback(st, v) ==
    FallbackResult(st, v, CheckDiscordance(v, st.gleif_row))

\* mode 1: validation of a declared LEI; gleif_row is what search_by_lei returns
Mode1(st, v, gleif_row) ==
    IF gleif_row # None
    THEN LeiFound([st EXCEPT !.calls = Append(@, Call("search_by_lei", gleif_row,
                                                      0, TRUE))],
                  gleif_row, CheckDiscordance(v, gleif_row))
    ELSE Fallback(FallbackName(
                      FallbackRcs([st EXCEPT !.calls =
                                       Append(@, Call("search_by_lei", gleif_row,
                                                      0, FALSE))],
                                  v, ByRcs(v), ByRcsFuzzy(v)),
                      v, ByNameCountry(v)), v)

\* variant: mode 2a without the test of the statuses
ExactRcsAnyStatus(st, v, found) ==
    IF v.rcs_norm # <<>>
    THEN LET ok == found # None
         IN [st EXCEPT !.gleif_row = IF ok THEN found ELSE None,
                       !.match_type = IF ok THEN EXACT_RCS ELSE @,
                       !.match_score = IF ok THEN NumScore(100) ELSE @,
                       !.calls = Append(@, Call("search_by_rcs", found, 0, ok))]
    ELSE st

\* mode 2a: the exact registration number; found is what search_by_rcs returns
ExactRcs(st, v, found) ==
    IF v.rcs_norm # <<>>
    THEN LET ok == found # None /\ (active_only => ActiveIssued(found))
         IN [st EXCEPT !.gleif_row = IF ok THEN found ELSE None,
                       !.match_type = IF ok THEN EXACT_RCS ELSE @,
                       !.match_score = IF ok THEN NumScore(100) ELSE @,
                       !.calls = Append(@, Call("search_by_rcs", found, 0, ok))]
    ELSE st

\* ScoreCorrespondance of mode 2b
ApproxRcsScore(v, found, gl_name_norm) ==
    IF v.name_norm # <<>> /\ gl_name_norm # <<>>
    THEN RcsNameScore(found.score, TokenSortRatio(v.name_norm, gl_name_norm))
    ELSE RcsScore(found.score)

\* variant: mode 2b without the test of the statuses
ApproxRcsAnyStatus(st, v, found) ==
    IF st.gleif_row = None /\ v.rcs_norm # <<>> /\ rcs_fuzzy_threshold > 0
    THEN LET ok == found.row # None
         IN [st EXCEPT !.gleif_row = IF ok THEN found.row ELSE @,
                       !.match_type = IF ok THEN APPROX_RCS ELSE @,
                       !.match_score =
                           IF ok
                           THEN ApproxRcsScore(v, found, NormName(found.row.name))
                           ELSE @,
                       !.calls = Append(@, Call("search_by_rcs_fuzzy", found.row,
                                                found.score, ok))]
    ELSE st

\* variant: mode 2b told the best key among those whose first row passes the
\* test of the statuses
ApproxRcsAmongEligible(st, v, found) ==
    IF st.gleif_row = None /\ v.rcs_norm # <<>> /\ rcs_fuzzy_threshold > 0
    THEN LET eligible == SelectSeq(rcs_index,
                            LAMBDA item : active_only =>
                                ActiveIssued(iloc(df_gleif, item[2][1])))
             best == search_by_rcs_fuzzy(v.rcs_norm, eligible, df_gleif,
                                         rcs_fuzzy_threshold)
             ok == best.row # None
         IN [st EXCEPT !.gleif_row = IF ok THEN best.row ELSE @,
                       !.match_type = IF ok THEN APPROX_RCS ELSE @,
                       !.match_score =
                           IF ok
                           THEN ApproxRcsScore(v, best, NormName(best.row.name))
                           ELSE @,
                       !.calls = Append(@, Call("search_by_rcs_fuzzy", best.row,
                                                best.score, ok))]
    ELSE st

\* mode 2b: the approximate registration number; found is what
\* search_by_rcs_fuzzy returns
ApproxRcs(st, v, found) ==
    IF st.gleif_row = None /\ v.rcs_norm # <<>> /\ rcs_fuzzy_threshold > 0
    THEN LET ok == found.row # None /\ (active_only => ActiveIssued(found.row))
         IN [st EXCEPT !.gleif_row = IF ok THEN found.row ELSE @,
                       !.match_type = IF ok THEN APPROX_RCS ELSE @,
                       !.match_score =
                           IF ok
                           THEN ApproxRcsScore(v, found, NormName(found.row.name))
                           ELSE @,
                       !.calls = Append(@, Call("search_by_rcs_fuzzy", found.row,
                                                found.score, ok))]
    ELSE st

\* variant: mode 2c run whatever the tiers before it found
ApproxNameUnguarded(st, v, found) ==
    IF v.name_norm # <<>>
    THEN LET ok == found.row # None /\ (active_only => ActiveIssued(found.row))
         IN [st EXCEPT !.gleif_row = IF ok THEN found.row ELSE None,
                       !.match_type = IF ok THEN APPROX_NOM_PAYS ELSE @,
                       !.match_score = IF ok THEN NumScore(found.score) ELSE @,
                       !.calls = Append(@, Call("search_by_name_country",
                                                found.row, found.score, ok))]
    ELSE st

\* variant: mode 2c without the test of the statuses
ApproxNameAnyStatus(st, v, found) ==
    IF st.gleif_row = None /\ v.name_norm # <<>>
    THEN LET ok == found.row # None
         IN [st EXCEPT !.gleif_row = IF ok THEN found.row ELSE None,
                       !.match_type = IF ok THEN APPROX_NOM_PAYS ELSE @,
                       !.match_score = IF ok THEN NumScore(found.score) ELSE @,
                       !.calls = Append(@, Call("search_by_name_country",
                                                found.row, found.score, ok))]
    ELSE st

\* mode 2c: name and country; found is what search_by_name_country returns
ApproxName(st, v, found) ==
    IF st.gleif_row = None /\ v.name_norm # <<>>
    THEN LET ok == found.row # None /\ (active_only => ActiveIssued(found.row))
         IN [st EXCEPT !.gleif_row = IF ok THEN found.row ELSE None,
                       !.match_type = IF ok THEN APPROX_NOM_PAYS ELSE @,
                       !.match_score = IF ok THEN NumScore(found.score) ELSE @,
                       !.calls = Append(@, Call("search_by_name_country",
                                                found.row, found.score, ok))]
    ELSE st

\* variant: mode 2 with the name tier tried first
Mode2NameFirst(st, v) ==
    LET named == ApproxName([st EXCEPT !.gleif_row = None], v, ByNameCountry(v))
    IN IF named.gleif_row # None THEN named
       ELSE LET byId == ExactRcs(st, v, ByRcs(v))
            IN IF byId.gleif_row # None THEN byId
               ELSE ApproxRcs(byId, v, ByRcsFuzzy(v))

\* mode 2: search of a missing LEI
Mode2(st, v) ==
    ApproxName(ApproxRcs(ExactRcs(st, v, ByRcs(v)), v, ByRcsFuzzy(v)),
               v, ByNameCountry(v))

\* variant: the mode chosen on the LEI cell as typed, before .strip()
MatchRowUntrimmed(row) ==
    LET v == RowValues(row)
    IN IF has_lei_col /\ row.lei # <<>> THEN Mode1(RowStart, v, ByLei(v))
       ELSE Mode2(RowStart, v)

\* the loop body from "if lei_exist" to the result record, on the values v
Modes(v) ==
    IF v.lei_exist # <<>> THEN Mode1(RowStart, v, ByLei(v)) ELSE Mode2(RowStart, v)

\* the loop body up to the result record: the locals after the modes
MatchRow(row) == Modes(RowValues(row))

\* the record appended to results
ResultRecord(st) ==
    IF st.gleif_row # None
    THEN [LEI_GLEIF |-> st.gleif_row.lei,
          GLEIF_NomLegal |-> st.gleif_row.name,
          GLEIF_Pays |-> st.gleif_row.country,
          GLEIF_StatutSociete |-> st.gleif_row.entity_status,
          GLEIF_StatutLEI |-> st.gleif_row.lei_status,
          GLEIF_AutoriteRegistre |-> st.gleif_row.ra_id,
          GLEIF_NumRegistre |-> st.gleif_row.ra_entity,
          GLEIF_DateRenouvellement |-> st.gleif_row.renewal_date,
          TypeCorrespondance |-> st.match_type,
          ScoreCorrespondance |-> st.match_score,
          LEI_Discordance |-> st.disc_text]
    ELSE [LEI_GLEIF |-> <<>>, GLEIF_NomLegal |-> <<>>, GLEIF_Pays |-> <<>>,
          GLEIF_StatutSociete |-> <<>>, GLEIF_StatutLEI |-> <<>>,
          GLEIF_AutoriteRegistre |-> <<>>, GLEIF_NumRegistre |-> <<>>,
          GLEIF_DateRenouvellement |-> <<>>,
          TypeCorrespondance |-> st.match_type,
          ScoreCorrespondance |-> NoScore,
          LEI_Discordance |-> <<>>]

\* variant: the result record is put in front of results, not at its end
MatchNextPrepending ==
    /\ pc = "match"
    /\ idx < MaxRows
    /\ \E row \in InputUniverse :
          \E st \in {MatchRow(row)} :
             /\ df_input' = Append(df_input, row)
             /\ results' = <<ResultRecord(st)>> \o results
             /\ calls' = <<st.calls>> \o calls
    /\ idx' = idx + 1
    /\ UNCHANGED <<update_vars, slim_vars, input_columns, col_lei, raised, gleif_suffix, probe,
                   gleif_file, chunksize, chunks_read, chunks, df_gleif,
                   rcs_index, name_index, lei_index, index_row, active_only,
                   has_lei_col, fuzzy_threshold, rcs_fuzzy_threshold,
                   df_output, pc>>

\* variant: a reference record attached to an earlier row is not attached again
MatchNextOnce ==
    /\ pc = "match"
    /\ idx < MaxRows
    /\ \E row \in InputUniverse :
          \E st \in {MatchRow(row)} :
             /\ df_input' = Append(df_input, row)
             /\ results' =
                   Append(results,
                          IF \E i \in 1..Len(results) :
                                /\ results[i].TypeCorrespondance # NON_TROUVE
                                /\ results[i].LEI_GLEIF = ResultRecord(st).LEI_GLEIF
                          THEN ResultRecord(RowStart)
                          ELSE ResultRecord(st))
             /\ calls' = Append(calls, st.calls)
    /\ idx' = idx + 1
    /\ UNCHANGED <<update_vars, slim_vars, input_columns, col_lei, raised, gleif_suffix, probe,
                   gleif_file, chunksize, chunks_read, chunks, df_gleif,
                   rcs_index, name_index, lei_index, index_row, active_only,
                   has_lei_col, fuzzy_threshold, rcs_fuzzy_threshold,
                   df_output, pc>>

\* one turn of the loop "for idx, row in df_input.iterrows()": the spreadsheet
\* holds one more row, any row of the universe
MatchNext ==
    /\ pc = "match"
    /\ idx < MaxRows
    /\ \E row \in InputUniverse :
          \E st \in {MatchRow(row)} :
             /\ df_input' = Append(df_input, row)
             /\ results' = Append(results, ResultRecord(st))
             /\ calls' = Append(calls, st.calls)
    /\ idx' = idx + 1
    /\ UNCHANGED <<update_vars, slim_vars, input_columns, col_lei, raised, gleif_suffix, probe,
                   gleif_file, chunksize, chunks_read, chunks, df_gleif,
                   rcs_index, name_index, lei_index, index_row, active_only,
                   has_lei_col, fuzzy_threshold, rcs_fuzzy_threshold,
                   df_output, pc>>

\* the spreadsheet has no more row: the output table is assembled and
\* exported, then the summary is logged, which divides by the number of rows
Finish ==
    /\ pc = "match"
    /\ df_output' = [i \in 1..Len(df_input) |->
                        [input |-> df_input[i], result |-> results[i]]]
    /\ pc' = IF Len(df_input) = 0 THEN "ZeroDivisionError" ELSE "done"
    /\ raised' = IF Len(df_input) = 0 THEN [type |-> "ZeroDivisionError"]
                 ELSE raised
    /\ UNCHANGED <<update_vars, slim_vars, input_columns, col_lei, gleif_suffix, probe,
                   gleif_file, chunksize, chunks_read, chunks, df_gleif,
                   rcs_index, name_index, lei_index, index_row, df_input,
                   active_only, has_lei_col, fuzzy_threshold,
                   rcs_fuzzy_threshold, idx, results, calls>>

\* ------------------------------------------------- GleifApp._run_matching
\* The pipeline of the graphical interface: the same loading and indexing,
\* its own copy of the loop over the input rows.

\* match_type before the two modes, as _run_matching writes it
GUI_NON_TROUVE == "Non trouve"

\* the values of the threshold of the approximate registration number in the
\* interface
GuiRcsThresholds == {0, 88, 100}

\* the check of the required columns: an error box and the end of the run,
\* or the choice of the LEI mode
GuiValidateColumns ==
    /\ pc = "start"
    /\ IF MissingCols(input_columns) # <<>>
       THEN /\ raised' = [type |-> "showerror",
                          missing_cols |-> MissingCols(input_columns),
                          available |-> input_columns]
            /\ pc' = "gui_error"
            /\ UNCHANGED has_lei_col
       ELSE /\ has_lei_col' = (col_lei # "" /\ col_lei \in input_columns)
            /\ pc' = "load"
            /\ UNCHANGED raised
    /\ UNCHANGED <<update_vars, slim_vars, input_columns, col_lei, gleif_suffix, probe,
                   gleif_file, chunksize, chunks_read, chunks, df_gleif,
                   rcs_index, name_index, lei_index, index_row, df_input,
                   active_only, fuzzy_threshold, rcs_fuzzy_threshold, idx,
                   results, calls, df_output>>

GuiRowStart ==
    [gleif_row |-> None, match_type |-> GUI_NON_TROUVE, match_score |-> NoScore,
     disc_text |-> <<>>, calls |-> <<>>]

\* mode 1, fallback: the exact registration number only
GuiFallbackRcs(st, v, exact) ==
    IF v.rcs_norm # <<>>
    THEN [st EXCEPT !.gleif_row = exact,
                    !.calls = Append(@, Call("search_by_rcs", exact, 0,
                                             exact # None))]
    ELSE st

\* mode 1 of the interface
GuiMode1(st, v, gleif_row) ==
    IF gleif_row # None
    THEN LeiFound([st EXCEPT !.calls = Append(@, Call("search_by_lei", gleif_row,
                                                      0, TRUE))],
                  gleif_row, CheckDiscordance(v, gleif_row))
    ELSE Fallback(FallbackName(
                      GuiFallbackRcs([st EXCEPT !.calls =
                                          Append(@, Call("search_by_lei",
                                                         gleif_row, 0, FALSE))],
                                     v, ByRcs(v)),
                      v, ByNameCountry(v)), v)

\* mode 2b of the interface: run when the threshold is below 100
GuiApproxRcs(st, v, found) ==
    IF st.gleif_row = None /\ v.rcs_norm # <<>> /\ rcs_fuzzy_threshold < 100
    THEN LET ok == found.row # None /\ (active_only => ActiveIssued(found.row))
         IN [st EXCEPT !.gleif_row = IF ok THEN found.row ELSE @,
                       !.match_type = IF ok THEN APPROX_RCS ELSE @,
                       !.match_score =
                           IF ok
                           THEN ApproxRcsScore(v, found, NormName(found.row.name))
                           ELSE @,
                       !.calls = Append(@, Call("search_by_rcs_fuzzy", found.row,
                                                found.score, ok))]
    ELSE st

\* mode 2 of the interface
GuiMode2(st, v) ==
    ApproxName(GuiApproxRcs(ExactRcs(st, v, ByRcs(v)), v, ByRcsFuzzy(v)),
               v, ByNameCountry(v))

GuiModes(v) ==
    IF v.lei_exist # <<>> THEN GuiMode1(GuiRowStart, v, ByLei(v))
    ELSE GuiMode2(GuiRowStart, v)

\* the loop body of _run_matching up to the result record
GuiMatchRow(row) == GuiModes(RowValues(row))

\* the record appended to results: the fields of the row found or empty
\* cells, the three locals as they are
GuiResultRecord(st) ==
    [LEI_GLEIF |-> IF st.gleif_row # None THEN st.gleif_row.lei ELSE <<>>,
     GLEIF_NomLegal |-> IF st.gleif_row # None THEN st.gleif_row.name ELSE <<>>,
     GLEIF_Pays |-> IF st.gleif_row # None THEN st.gleif_row.country ELSE <<>>,
     GLEIF_StatutSociete |->
         IF st.gleif_row # None THEN st.gleif_row.entity_status ELSE <<>>,
     GLEIF_StatutLEI |->
         IF st.gleif_row # None THEN st.gleif_row.lei_status ELSE <<>>,
     GLEIF_AutoriteRegistre |->
         IF st.gleif_row # None THEN st.gleif_row.ra_id ELSE <<>>,
     GLEIF_NumRegistre |->
         IF st.gleif_row # None THEN st.gleif_row.ra_entity ELSE <<>>,
     GLEIF_DateRenouvellement |->
         IF st.gleif_row # None THEN st.gleif_row.renewal_date ELSE <<>>,
     TypeCorrespondance |-> st.match_type,
     ScoreCorrespondance |-> st.match_score,
     LEI_Discordance |-> st.disc_text]

\* one turn of the loop of _run_matching
GuiMatchNext ==
    /\ pc = "match"
    /\ idx < MaxRows
    /\ \E row \in InputUniverse :
          \E st \in {GuiMatchRow(row)} :
             /\ df_input' = Append(df_input, row)
             /\ results' = Append(results, GuiResultRecord(st))
             /\ calls' = Append(calls, st.calls)
    /\ idx' = idx + 1
    /\ UNCHANGED <<update_vars, slim_vars, input_columns, col_lei, raised, gleif_suffix,
                   probe, gleif_file, chunksize, chunks_read, chunks, df_gleif,
                   rcs_index, name_index, lei_index, index_row, active_only,
                   has_lei_col, fuzzy_threshold, rcs_fuzzy_threshold,
                   df_output, pc>>

\* the end of _run_matching: the output table is assembled and exported, the
\* summary shown
GuiFinish ==
    /\ pc = "match"
    /\ df_output' = [i \in 1..Len(df_input) |->
                        [input |-> df_input[i], result |-> results[i]]]
    /\ pc' = "done"
    /\ UNCHANGED <<update_vars, slim_vars, input_columns, col_lei, raised, gleif_suffix,
                   probe, gleif_file, chunksize, chunks_read, chunks, df_gleif,
                   rcs_index, name_index, lei_index, index_row, df_input,
                   active_only, has_lei_col, fuzzy_threshold,
                   rcs_fuzzy_threshold, idx, results, calls>>

\* ----------------------------------------------------------- UpdateDialog
\* The update window of the interface. The handlers of the buttons and the
\* callbacks scheduled with after() run in the one thread of the interface;
\* _do_check and _do_download run in threads of their own.

\* the bounds: instances created, worker threads started
MaxDialogs == 2

MaxThreads == 3

\* the other variables of the module, untouched by the dialog
UpdateOnly ==
    UNCHANGED <<slim_vars, input_columns, col_lei, raised, gleif_suffix, probe,
                gleif_file, chunksize, chunks_read, chunks, df_gleif, rcs_index,
                name_index, lei_index, index_row, df_input, active_only,
                has_lei_col, fuzzy_threshold, rcs_fuzzy_threshold, idx,
                results, calls, df_output, pc>>

\* GleifApp._open_update_dialog: UpdateDialog.__init__ and _build_ui
OpenDialog ==
    /\ pc = "update"
    /\ shown = 0
    /\ dialogs < MaxDialogs
    /\ dialogs' = dialogs + 1
    /\ shown' = dialogs + 1
    /\ running' = Append(running, FALSE)
    /\ has_meta' = Append(has_meta, FALSE)
    /\ btn_check' = Append(btn_check, "normal")
    /\ btn_download' = Append(btn_download, "disabled")
    /\ UNCHANGED <<threads, workers, tk_queue>>
    /\ UpdateOnly

\* the button Fermer: destroy, which destroys the widgets of the instance
\* and leaves its threads alone
CloseDialog ==
    /\ pc = "update"
    /\ shown # 0
    /\ shown' = 0
    /\ btn_check' = [btn_check EXCEPT ![shown] = "destroyed"]
    /\ btn_download' = [btn_download EXCEPT ![shown] = "destroyed"]
    /\ UNCHANGED <<dialogs, running, has_meta, threads, workers, tk_queue>>
    /\ UpdateOnly

\* a thread started on target by the instance d
StartThread(d, target) ==
    /\ threads < MaxThreads
    /\ threads' = threads + 1
    /\ workers' = workers \cup {[id |-> threads + 1, dialog |-> d, target |-> target]}

\* _start_check, on a click on btn_check
StartCheck ==
    /\ pc = "update"
    /\ shown # 0
    /\ btn_check[shown] = "normal"
    /\ ~running[shown]
    /\ running' = [running EXCEPT ![shown] = TRUE]
    /\ btn_check' = [btn_check EXCEPT ![shown] = "disabled"]
    /\ btn_download' = [btn_download EXCEPT ![shown] = "disabled"]
    /\ StartThread(shown, "_do_check")
    /\ UNCHANGED <<dialogs, shown, has_meta, tk_queue>>
    /\ UpdateOnly

\* _start_download, on a click on btn_download
StartDownload ==
    /\ pc = "update"
    /\ shown # 0
    /\ btn_download[shown] = "normal"
    /\ ~running[shown]
    /\ has_meta[shown]
    /\ running' = [running EXCEPT ![shown] = TRUE]
    /\ btn_check' = [btn_check EXCEPT ![shown] = "disabled"]
    /\ btn_download' = [btn_download EXCEPT ![shown] = "disabled"]
    /\ StartThread(shown, "_do_download")
    /\ UNCHANGED <<dialogs, shown, has_meta, tk_queue>>
    /\ UpdateOnly

\* a callback handed to after(0, ...): the state a button of d is given
Callback(d, button, state) == [dialog |-> d, button |-> button, state |-> state]

\* _do_check to its end: the metadata fetched and a newer version found, or
\* none, or an exception; then the finally clause
DoCheck ==
    /\ pc = "update"
    /\ \E w \in workers :
          /\ w.target = "_do_check"
          /\ \E outcome \in {"available", "up to date", "exception"} :
                /\ has_meta' = [has_meta EXCEPT ![w.dialog] =
                                    @ \/ outcome # "exception"]
                /\ tk_queue' =
                      tk_queue
                        \o (IF outcome = "available"
                            THEN <<Callback(w.dialog, "btn_download", "normal")>>
                            ELSE <<>>)
                        \o <<Callback(w.dialog, "btn_check", "normal")>>
          /\ running' = [running EXCEPT ![w.dialog] = FALSE]
          /\ workers' = workers \ {w}
    /\ UNCHANGED <<dialogs, shown, btn_check, btn_download, threads>>
    /\ UpdateOnly

\* _do_download to its end: the archive downloaded and extracted, the slim
\* file written if asked for, or an exception; then the finally clause
DoDownload ==
    /\ pc = "update"
    /\ \E w \in workers :
          /\ w.target = "_do_download"
          /\ running' = [running EXCEPT ![w.dialog] = FALSE]
          /\ tk_queue' = Append(tk_queue, Callback(w.dialog, "btn_check", "normal"))
          /\ workers' = workers \ {w}
    /\ UNCHANGED <<dialogs, shown, has_meta, btn_check, btn_download, threads>>
    /\ UpdateOnly

\* the interface runs the first callback scheduled: config on a button, which
\* fails on a destroyed one
TkCallback ==
    /\ pc = "update"
    /\ tk_queue # <<>>
    /\ tk_queue' = Tail(tk_queue)
    /\ btn_check' =
          IF Head(tk_queue).button = "btn_check"
             /\ btn_check[Head(tk_queue).dialog] # "destroyed"
          THEN [btn_check EXCEPT ![Head(tk_queue).dialog] = Head(tk_queue).state]
          ELSE btn_check
    /\ btn_download' =
          IF Head(tk_queue).button = "btn_download"
             /\ btn_download[Head(tk_queue).dialog] # "destroyed"
          THEN [btn_download EXCEPT ![Head(tk_queue).dialog] = Head(tk_queue).state]
          ELSE btn_download
    /\ UNCHANGED <<dialogs, shown, running, has_meta, threads, workers>>
    /\ UpdateOnly

\* ------------------------------------------ the functions, on their own

\* the calls of normalize_rcs of the model: a prefix and a number
RcsPrefixes ==
    { <<>>,
      <<"R", "C", "S", " ", "P", "A", "U", " ">>,
      <<"r", "c", "s", " ", "p", "a", "u", " ">>,
      <<"R", "C", "S", " ", "E_ACUTE", "V", "R", "Y", " ", " ">>,
      <<"R", "C", "S", " ">>,
      <<" ", "R", "C", "S", " ", "A", " ", "B", " ">> }

RcsNumbers ==
    { <<>>,
      <<" ">>,
      <<"0", "0", "1", "5", "1">>,
      <<"FW1", "5", "AI3">>,
      <<"1", "5", ".", "1", " ", "b", "-", "2">>,
      <<"R", "C", "S", " ", "A", " ", "7">>,
      <<"r", "c", "s", " ", "e_acute", " ", "0", "7">>,
      <<"A", " ", "1">>,
      <<"e_grave", "1", "_", "2", " ">> }

NormalizeRcsProbes ==
    { [fn |-> "normalize_rcs", arg |-> prefix \o number, out |-> <<>>] :
         prefix \in RcsPrefixes, number \in RcsNumbers }

\* the calls of _check_lei_discordance of the model
DiscordanceRecords ==
    { Gleif(<<"L", "1">>, ACME, FR, ACTIVE, ISSUED, K11),
      Gleif(<<"l", "2">>, BETA, <<"f", "r">>, ACTIVE, ISSUED, K10),
      Gleif(<<>>, <<>>, <<>>, ACTIVE, ISSUED, <<>>),
      Gleif(<<"L", "1">>, ACME \o <<" ", "S", ".", "A", ".">>, <<"D", "E">>, INACTIVE,
            ISSUED, <<"R", "C", "S", " ", "P", "A", "U", " ">> \o K10) }

DiscordanceRcs == {<<>>, K10, K11, <<"-">>}

DiscordanceNames == {<<>>, ACME \o <<" ", "S", "A">>, OMEGA, <<"S", "A">>}

DiscordanceIsos == {<<>>, FR, <<"D", "E">>}

DiscordanceLeis == {<<>>, <<"L", "1">>, <<"l", "2">>, <<"L", "5">>}

DiscordanceProbes ==
    { [fn |-> "_check_lei_discordance",
       arg |-> [gleif_row |-> rec, client_rcs_raw |-> rcs,
                client_name_raw |-> name, client_iso |-> iso,
                client_lei |-> lei],
       out |-> <<>>] :
         rec \in DiscordanceRecords, rcs \in DiscordanceRcs,
         name \in DiscordanceNames, iso \in DiscordanceIsos,
         lei \in DiscordanceLeis }

\* the calls of search_by_rcs_fuzzy of the model: a table of at most MaxTie
\* rows whose numbers contain the one looked for, its index, a threshold
MaxTie == 3

Q4 == <<"1", "5", "1", "3">>

TieUniverse ==
    { Gleif(<<"T", "1">>, ACME, FR, ACTIVE, ISSUED, <<"0">> \o Q4),
      Gleif(<<"T", "2">>, BETA, FR, ACTIVE, ISSUED, Q4 \o <<"0">>),
      Gleif(<<"T", "3">>, OMEGA, FR, ACTIVE, ISSUED, Q4),
      Gleif(<<"T", "4">>, ACME, FR, INACTIVE, ISSUED, <<"0", "0">> \o Q4),
      Gleif(<<"T", "5">>, BETA, FR, ACTIVE, LAPSED,
            <<"R", "C", "S", " ", "0">> \o Q4) }

\* build_indices' first loop on a whole table, from row i on
RECURSIVE RcsIndexFrom(_, _, _)
RcsIndexFrom(df, i, rcs_idx) ==
    IF i >= Len(df) THEN rcs_idx
    ELSE RcsIndexFrom(df, i + 1, IndexRcs(rcs_idx, df, i))

RcsFuzzyProbes ==
    { [fn |-> "search_by_rcs_fuzzy",
       arg |-> [rcs_norm |-> Q4, df |-> df,
                rcs_index |-> RcsIndexFrom(df, 0, <<>>), threshold |-> t],
       out |-> <<>>] :
         df \in DistinctSeqsUpTo(TieUniverse, MaxTie), t \in {70, 80, 88} }

\* GLEIF_COLUMN_CANDIDATES: for each logical column, the names it may have
\* in the header of the reference file, in order of priority
GLEIF_COLUMN_CANDIDATES ==
    [
      lei |->
        <<"LEI">>,
      name |->
        <<"Entity.LegalName",
           "Entity.LegalName.name">>,
      country |->
        <<"Entity.LegalAddress.Country",
           "Entity.LegalAddress.country">>,
      entity_status |->
        <<"Entity.EntityStatus",
           "Entity.Status">>,
      lei_status |->
        <<"Registration.RegistrationStatus",
           "Registration.Status">>,
      ra_id |->
        <<"Registration.RegistrationAuthorityID",
           "Entity.RegistrationAuthority.RegistrationAuthorityID",
           "Registration.RegistrationAuthority.RegistrationAuthorityID",
           "RegistrationAuthority.RegistrationAuthorityID">>,
      ra_entity |->
        <<"Registration.RegistrationAuthorityEntityID",
           "Entity.RegistrationAuthority.RegistrationAuthorityEntityID",
           "Registration.RegistrationAuthority.RegistrationAuthorityEntityID",
           "RegistrationAuthority.RegistrationAuthorityEntityID">>,
      renewal_date |->
        <<"Registration.NextRenewalDate",
           "Registration.NextRenewal",
           "Entity.Registration.NextRenewalDate">> ]

\* SLIM_COLUMNS: the logical columns, in the order of GLEIF_COLUMN_CANDIDATES
SLIM_COLUMNS ==
    <<"lei", "name", "country", "entity_status", "lei_status", "ra_id",
      "ra_entity", "renewal_date">>

\* variant: the last candidate present in the header
LastCandidate(candidates, available_set) ==
    LET hits == SelectSeq(candidates, LAMBDA c : c \in available_set)
    IN IF hits = <<>> THEN "" ELSE hits[Len(hits)]

\* next((c for c in candidates if c in available_set), None), "" for None
FirstCandidate(candidates, available_set) ==
    LET hits == SelectSeq(candidates, LAMBDA c : c \in available_set)
    IN IF hits = <<>> THEN "" ELSE hits[1]

\* the loop of _detect_gleif_columns from the logical column i on
RECURSIVE DetectFrom(_, _, _)
DetectFrom(available_set, i, acc) ==
    IF i > Len(SLIM_COLUMNS) THEN acc
    ELSE LET logical == SLIM_COLUMNS[i]
             found == FirstCandidate(GLEIF_COLUMN_CANDIDATES[logical],
                                     available_set)
         IN DetectFrom(available_set, i + 1,
               IF found # ""
               THEN [acc EXCEPT !.col_map = DictSet(@, logical, found)]
               ELSE [acc EXCEPT !.missing = Append(@, logical)])

_detect_gleif_columns(available_cols) ==
    DetectFrom(Range(available_cols), 1, [col_map |-> <<>>, missing |-> <<>>])

\* a chunk row of load_gleif once its columns are renamed to the logical
\* names, the missing logical columns added empty, the logical columns kept
LogicalRow(col_map, raw) ==
    [logical \in Range(SLIM_COLUMNS) |->
        IF logical \in DictKeys(col_map) THEN raw[DictGet(col_map, logical, "")]
        ELSE <<>>]

\* reading a file with usecols: the rows read, when the detected columns are
\* the ones asked for; with no column asked for, the reader hands out the
\* rows without any cell or no row at all
ReadRows(col_map, raws) ==
    IF col_map = <<>> THEN {raws, <<>>} ELSE {raws}

\* the headers of the model: at most MaxHeader of these columns, in any order
MaxHeader == 3

HeaderColumns ==
    { "LEI", "Entity.LegalName", "Entity.LegalName.name",
      "Registration.RegistrationAuthorityEntityID",
      "Entity.RegistrationAuthority.RegistrationAuthorityEntityID",
      "RegistrationAuthority.RegistrationAuthorityEntityID",
      "Registration.NextRenewal", "Entity.LegalForm", "name" }

\* the data row of the model under a header: each cell holds the name of its
\* column
RawRow(header) == [c \in Range(header) |-> <<c>>]

DetectProbes ==
    { [fn |-> "_detect_gleif_columns", arg |-> header, out |-> <<>>] :
         header \in DistinctSeqsUpTo(HeaderColumns, MaxHeader) }

\* the calls of country_to_iso of the model: every key of COUNTRY_MAP, in
\* lower case, in upper case and with a capital first letter
LetterCases(key) ==
    {key, Upper(key), <<UpperChar(key[1])>> \o Tail(key)}

CountryProbes ==
    UNION { { [fn |-> "country_to_iso", arg |-> [value |-> value, code |-> e[2]],
               out |-> <<>>] : value \in LetterCases(e[1]) } :
            e \in COUNTRY_MAP }

\* the steps of a function called on its own leave the run untouched
ProbeOnly ==
    UNCHANGED <<update_vars, slim_vars, input_columns, col_lei, raised, gleif_suffix, gleif_file,
                chunksize, chunks_read, chunks, df_gleif, rcs_index,
                name_index, lei_index, index_row, df_input, active_only,
                has_lei_col, fuzzy_threshold, rcs_fuzzy_threshold, idx,
                results, calls, df_output, pc>>

\* normalize_rcs called on the argument, then on the value it returned
ProbeNormalizeRcs ==
    /\ pc = "probe"
    /\ probe.fn = "normalize_rcs"
    /\ Len(probe.out) < 2
    /\ probe' = [probe EXCEPT !.out =
                     Append(@, normalize_rcs(IF @ = <<>> THEN probe.arg
                                             ELSE @[Len(@)]))]
    /\ ProbeOnly

\* _check_lei_discordance called on the arguments, its default threshold kept
ProbeDiscordance ==
    /\ pc = "probe"
    /\ probe.fn = "_check_lei_discordance"
    /\ probe.out = <<>>
    /\ probe' = [probe EXCEPT !.out =
                     << _check_lei_discordance(
                            probe.arg.gleif_row, probe.arg.client_rcs_raw,
                            probe.arg.client_name_raw, probe.arg.client_iso,
                            probe.arg.client_lei, NAME_AGREEMENT_THRESHOLD) >>]
    /\ ProbeOnly

\* search_by_rcs_fuzzy called on the arguments
ProbeRcsFuzzy ==
    /\ pc = "probe"
    /\ probe.fn = "search_by_rcs_fuzzy"
    /\ probe.out = <<>>
    /\ probe' = [probe EXCEPT !.out =
                     << search_by_rcs_fuzzy(probe.arg.rcs_norm,
                                            probe.arg.rcs_index, probe.arg.df,
                                            probe.arg.threshold) >>]
    /\ ProbeOnly

\* load_gleif on a file of one data row under the header: the columns
\* detected, then the rows of the chunk under their logical names
ProbeDetect ==
    /\ pc = "probe"
    /\ probe.fn = "_detect_gleif_columns"
    /\ probe.out = <<>>
    /\ \E det \in {_detect_gleif_columns(probe.arg)} :
          \E raws \in ReadRows(det.col_map, <<RawRow(probe.arg)>>) :
             probe' = [probe EXCEPT !.out =
                          << [col_map |-> det.col_map, missing |-> det.missing,
                              rows |-> [k \in 1..Len(raws) |->
                                          LogicalRow(det.col_map, raws[k])]] >>]
    /\ ProbeOnly

\* country_to_iso called on the argument
ProbeCountryToIso ==
    /\ pc = "probe"
    /\ probe.fn = "country_to_iso"
    /\ probe.out = <<>>
    /\ probe' = [probe EXCEPT !.out = <<country_to_iso(probe.arg.value)>>]
    /\ ProbeOnly

\* ------------------------------------------------------ the specifications

\* no update dialog created yet
UpdateIdle ==
    /\ dialogs = 0
    /\ shown = 0
    /\ running = <<>>
    /\ has_meta = <<>>
    /\ btn_check = <<>>
    /\ btn_download = <<>>
    /\ threads = 0
    /\ workers = {}
    /\ tk_queue = <<>>

\* nothing loaded, indexed or matched yet
InitState ==
    /\ UpdateIdle
    /\ slim_file = <<>>
    /\ total_written = 0
    /\ first_chunk = TRUE
    /\ raised = None
    /\ chunks_read = 0
    /\ chunks = <<>>
    /\ df_gleif = <<>>
    /\ rcs_index = <<>>
    /\ name_index = <<>>
    /\ lei_index = <<>>
    /\ index_row = 0
    /\ df_input = <<>>
    /\ idx = 0
    /\ results = <<>>
    /\ calls = <<>>
    /\ df_output = <<>>

\* what load_gleif starts from
InitLoad ==
    /\ InitState
    /\ probe = None
    /\ gleif_file \in DistinctSeqsUpTo(GleifUniverse, MaxGleif)
    /\ pc = "load"

\* match_companies, called on an input spreadsheet and a CSV reference file
Init ==
    /\ InitState
    /\ probe = None
    /\ \E config \in InputConfigs :
          input_columns = config.columns /\ col_lei = config.col_lei
    /\ gleif_suffix = ".csv"
    /\ gleif_file \in DistinctSeqsUpTo(GleifUniverse, MaxGleif)
    /\ chunksize = GLEIF_CHUNK_SIZE
    /\ active_only \in BOOLEAN
    /\ has_lei_col = FALSE
    /\ fuzzy_threshold \in FuzzyThresholds
    /\ rcs_fuzzy_threshold \in RcsFuzzyThresholds
    /\ pc = "start"

Next ==
    \/ ValidateColumns
    \/ LoadChunk
    \/ LoadDone
    \/ IndexRcsLeiNext
    \/ IndexNameNext
    \/ MatchNext
    \/ Finish

Spec == Init /\ [][Next]_vars

\* load_gleif alone, called with any flag on a file of any suffix, its CSV
\* reader of any chunk size
InitLoadOnly ==
    /\ InitLoad
    /\ input_columns = ALL_COLUMNS
    /\ col_lei = ""
    /\ gleif_suffix \in GleifSuffixes
    /\ chunksize \in 1..MaxChunk
    /\ active_only \in BOOLEAN
    /\ has_lei_col = FALSE
    /\ fuzzy_threshold = 80
    /\ rcs_fuzzy_threshold = 88

NextLoad == LoadChunk \/ LoadDone \/ LoadJson

SpecLoad == InitLoadOnly /\ [][NextLoad]_vars

\* a pure function called on its own, on an argument of the model
InitPure ==
    /\ InitState
    /\ probe \in NormalizeRcsProbes \cup DiscordanceProbes \cup RcsFuzzyProbes
                 \cup DetectProbes \cup CountryProbes
    /\ input_columns = ALL_COLUMNS
    /\ col_lei = ""
    /\ gleif_suffix = ".csv"
    /\ gleif_file = <<>>
    /\ chunksize = GLEIF_CHUNK_SIZE
    /\ active_only = TRUE
    /\ has_lei_col = FALSE
    /\ fuzzy_threshold = 80
    /\ rcs_fuzzy_threshold = 88
    /\ pc = "probe"

NextPure ==
    \/ ProbeNormalizeRcs
    \/ ProbeDiscordance
    \/ ProbeRcsFuzzy
    \/ ProbeDetect
    \/ ProbeCountryToIso

SpecPure == InitPure /\ [][NextPure]_vars

\* build_indices alone, called on a loaded table of at most MaxIndexed rows,
\* among them a row without LEI, country or registration number
MaxIndexed == 3

IndexUniverse ==
    GleifUniverse \cup {Gleif(<<" ">>, OMEGA, <<>>, ACTIVE, ISSUED, <<"-">>)}

InitIndex ==
    /\ UpdateIdle
    /\ slim_file = <<>>
    /\ total_written = 0
    /\ first_chunk = TRUE
    /\ raised = None
    /\ probe = None
    /\ input_columns = ALL_COLUMNS
    /\ col_lei = ""
    /\ gleif_suffix = ".csv"
    /\ gleif_file = <<>>
    /\ chunksize = GLEIF_CHUNK_SIZE
    /\ chunks_read = 0
    /\ chunks = <<>>
    /\ df_gleif \in DistinctSeqsUpTo(IndexUniverse, MaxIndexed) \ {<<>>}
    /\ rcs_index = <<>>
    /\ name_index = <<>>
    /\ lei_index = <<>>
    /\ index_row = 0
    /\ df_input = <<>>
    /\ active_only = FALSE
    /\ has_lei_col = FALSE
    /\ fuzzy_threshold = 80
    /\ rcs_fuzzy_threshold = 88
    /\ idx = 0
    /\ results = <<>>
    /\ calls = <<>>
    /\ df_output = <<>>
    /\ pc = "index_rcs_lei"

NextIndex == IndexRcsLeiNext \/ IndexNameNext

SpecIndex == InitIndex /\ [][NextIndex]_vars

\* prepare_slim alone, called with any flag on any source file, the file at
\* the output path holding anything, its CSV reader of any chunk size
InitSlim ==
    /\ UpdateIdle
    /\ slim_file \in SlimPriorContents
    /\ total_written = 0
    /\ first_chunk = TRUE
    /\ raised = None
    /\ probe = None
    /\ input_columns = ALL_COLUMNS
    /\ col_lei = ""
    /\ gleif_suffix = ".csv"
    /\ gleif_file \in DistinctSeqsUpTo(GleifUniverse, MaxGleif)
    /\ chunksize \in 1..MaxChunk
    /\ chunks_read = 0
    /\ chunks = <<>>
    /\ df_gleif = <<>>
    /\ rcs_index = <<>>
    /\ name_index = <<>>
    /\ lei_index = <<>>
    /\ index_row = 0
    /\ df_input = <<>>
    /\ active_only \in BOOLEAN
    /\ has_lei_col = FALSE
    /\ fuzzy_threshold = 80
    /\ rcs_fuzzy_threshold = 88
    /\ idx = 0
    /\ results = <<>>
    /\ calls = <<>>
    /\ df_output = <<>>
    /\ pc = "slim"

NextSlim == SlimChunk \/ SlimReturn

SpecSlim == InitSlim /\ [][NextSlim]_vars

\* GleifApp._run_matching, on an input spreadsheet and a CSV reference file
InitGui ==
    /\ InitState
    /\ probe = None
    /\ \E config \in InputConfigs :
          input_columns = config.columns /\ col_lei = config.col_lei
    /\ gleif_suffix = ".csv"
    /\ gleif_file \in DistinctSeqsUpTo(GleifUniverse, MaxGleif)
    /\ chunksize = GLEIF_CHUNK_SIZE
    /\ active_only \in BOOLEAN
    /\ has_lei_col = FALSE
    /\ fuzzy_threshold \in FuzzyThresholds
    /\ rcs_fuzzy_threshold \in GuiRcsThresholds
    /\ pc = "start"

NextGui ==
    \/ GuiValidateColumns
    \/ LoadChunk
    \/ LoadDone
    \/ IndexRcsLeiNext
    \/ IndexNameNext
    \/ GuiMatchNext
    \/ GuiFinish

SpecGui == InitGui /\ [][NextGui]_vars

\* the interface, its update dialog opened, used, closed and opened again
InitUpdate ==
    /\ InitState
    /\ probe = None
    /\ input_columns = ALL_COLUMNS
    /\ col_lei = ""
    /\ gleif_suffix = ".csv"
    /\ gleif_file = <<>>
    /\ chunksize = GLEIF_CHUNK_SIZE
    /\ active_only = TRUE
    /\ has_lei_col = FALSE
    /\ fuzzy_threshold = 80
    /\ rcs_fuzzy_threshold = 88
    /\ pc = "update"

NextUpdate ==
    \/ OpenDialog
    \/ CloseDialog
    \/ StartCheck
    \/ StartDownload
    \/ DoCheck
    \/ DoDownload
    \/ TkCallback

SpecUpdate == InitUpdate /\ [][NextUpdate]_vars

\* -------------------------------------------------------------- properties
\* What the properties below are stated with: rows are numbered from 1, row i
\* of the spreadsheet is df_input[i], its outcome results[i], the searches
\* made for it calls[i].

Rows == 1..Len(results)

Values(i) == RowValues(df_input[i])

\* the row is handled in validation mode / in discovery mode
Validation(i) == Values(i).lei_exist # <<>>

Discovery(i) == Values(i).lei_exist = <<>>

\* the outcome carries the fields of the reference record rec
Carries(res, rec) ==
    /\ res.LEI_GLEIF = rec.lei
    /\ res.GLEIF_NomLegal = rec.name
    /\ res.GLEIF_Pays = rec.country
    /\ res.GLEIF_StatutSociete = rec.entity_status
    /\ res.GLEIF_StatutLEI = rec.lei_status
    /\ res.GLEIF_AutoriteRegistre = rec.ra_id
    /\ res.GLEIF_NumRegistre = rec.ra_entity
    /\ res.GLEIF_DateRenouvellement = rec.renewal_date

\* the outcome carries no record: no matched field, no score, no text
CarriesNothing(res) ==
    /\ res.LEI_GLEIF = <<>>
    /\ res.GLEIF_NomLegal = <<>>
    /\ res.GLEIF_Pays = <<>>
    /\ res.GLEIF_StatutSociete = <<>>
    /\ res.GLEIF_StatutLEI = <<>>
    /\ res.GLEIF_AutoriteRegistre = <<>>
    /\ res.GLEIF_NumRegistre = <<>>
    /\ res.GLEIF_DateRenouvellement = <<>>
    /\ res.ScoreCorrespondance = NoScore
    /\ res.LEI_Discordance = <<>>

\* the rows of the loaded table whose normalized registration number is k,
\* and the first of them
RowsWithKey(k) == {j \in 1..Len(df_gleif) : NormRcs(df_gleif[j].ra_entity) = k}

FirstWithKey(k) ==
    df_gleif[CHOOSE j \in RowsWithKey(k) : \A m \in RowsWithKey(k) : j <= m]

\* the rows of the loaded table whose LEI is lei, case and blanks apart
RowsWithLei(lei) ==
    {j \in 1..Len(df_gleif) : Upper(Strip(df_gleif[j].lei)) = Upper(Strip(lei))}

\* the record the name tier finds for the row, None if none
NameTierRow(v) ==
    search_by_name_country(v.name_norm, v.iso, name_index, df_gleif,
                           fuzzy_threshold).row

\* the searches made for row i that are fn
CallsOf(i, fn) == {j \in 1..Len(calls[i]) : calls[i][j].fn = fn}

NoneAccepted(i) == \A j \in 1..Len(calls[i]) : ~calls[i][j].accepted

TierRank(fn) ==
    CASE fn = "search_by_rcs" -> 1
      [] fn = "search_by_rcs_fuzzy" -> 2
      [] fn = "search_by_name_country" -> 3
      [] OTHER -> 0

TierKind(fn) ==
    CASE fn = "search_by_rcs" -> EXACT_RCS
      [] fn = "search_by_rcs_fuzzy" -> APPROX_RCS
      [] fn = "search_by_name_country" -> APPROX_NOM_PAYS
      [] OTHER -> NON_TROUVE

ValidationKinds == {LEI_VALIDE, LEI_DISCORDANT, LEI_INVALIDE}

DiscoveryKinds == {EXACT_RCS, APPROX_RCS, APPROX_NOM_PAYS, NON_TROUVE}

\* ---- C1

\* row i is a discovery row whose registration number is a key of the index
\* while its name and country find another record than the one of that key
C1_IdAndNameDisagree(i) ==
    LET v == Values(i)
        named == NameTierRow(v)
    IN /\ Discovery(i)
       /\ v.rcs_norm \in DictKeys(rcs_index)
       /\ RowsWithKey(v.rcs_norm) # {}
       /\ named # None
       /\ named # FirstWithKey(v.rcs_norm)

C1_IsExactId(i) ==
    /\ Carries(results[i], FirstWithKey(Values(i).rcs_norm))
    /\ results[i].TypeCorrespondance = EXACT_RCS
    /\ results[i].ScoreCorrespondance = NumScore(100)

\* C1, as stated: in discovery mode, whenever the exact-id key of a row is in
\* the index and its name and country would match a different record, the
\* outcome is the exact-id record, of kind ExactId and score 100.
C1_ExactIdWins ==
    \A i \in Rows : C1_IdAndNameDisagree(i) => C1_IsExactId(i)

\* C1, amended: the same, provided that, when activeOnly is set, the exact-id
\* record is ACTIVE and ISSUED.
C1_EligibleExactIdWins ==
    \A i \in Rows :
        ( /\ C1_IdAndNameDisagree(i)
          /\ active_only => ActiveIssued(FirstWithKey(Values(i).rcs_norm)) )
        => C1_IsExactId(i)

\* an eligible exact-id record won over a record the name finds
C1_Witness ==
    \E i \in Rows :
        /\ C1_IdAndNameDisagree(i)
        /\ active_only
        /\ ActiveIssued(FirstWithKey(Values(i).rcs_norm))
        /\ ActiveIssued(NameTierRow(Values(i)))
        /\ C1_IsExactId(i)

\* ---- C2

\* C2: discovery is a strict cascade. The tiers are tried in the order exact
\* id, approximate id, name and country; a tier is tried only if no tier
\* before it accepted a record; the kind is that of the tier that accepted,
\* whose record the outcome carries; the kind is NotFound iff none accepted.
C2_StrictCascade ==
    \A i \in Rows :
        Discovery(i) =>
            LET c == calls[i]
            IN /\ \A j \in 1..Len(c) : TierRank(c[j].fn) >= 1
               /\ \A j, k \in 1..Len(c) :
                      j < k => /\ TierRank(c[j].fn) < TierRank(c[k].fn)
                               /\ ~c[j].accepted
               /\ \A j \in 1..Len(c) :
                      c[j].accepted =>
                          /\ c[j].row # None
                          /\ results[i].TypeCorrespondance = TierKind(c[j].fn)
                          /\ Carries(results[i], c[j].row)
               /\ results[i].TypeCorrespondance = NON_TROUVE <=> NoneAccepted(i)
               /\ NoneAccepted(i) => CarriesNothing(results[i])

\* the three tiers were tried in turn and the last one accepted a record
C2_Witness ==
    \E i \in Rows :
        /\ Discovery(i)
        /\ Len(calls[i]) = 3
        /\ calls[i][3].accepted
        /\ results[i].TypeCorrespondance = APPROX_NOM_PAYS

\* ---- C3

\* the keys of the index that are candidates for the id k, when ids shorter
\* than minLen have none
C3_Candidates(k, minLen) ==
    {c \in DictKeys(rcs_index) :
        /\ Len(k) >= minLen
        /\ Len(k) <= Len(c)
        /\ Len(c) <= Len(k) + 2
        /\ Contains(c, k)}

\* s is 100 * len(k) / len(c) rounded to the nearest integer
C3_IsScore(s, k, c) ==
    /\ 2 * (s * Len(c) - 100 * Len(k)) <= Len(c)
    /\ 2 * (100 * Len(k) - s * Len(c)) <= Len(c)

\* what the approximate-id tier returned for every row it was tried on
C3_Tier(minLen) ==
    \A i \in Rows :
        \A j \in CallsOf(i, "search_by_rcs_fuzzy") :
            LET k == Values(i).rcs_norm
                call == calls[i][j]
                cands == C3_Candidates(k, minLen)
            IN /\ rcs_fuzzy_threshold > 0
               /\ \A m \in CallsOf(i, "search_by_rcs") :
                      m < j /\ ~calls[i][m].accepted
               /\ IF \E c \in cands, s \in rcs_fuzzy_threshold..100 :
                         C3_IsScore(s, k, c)
                  THEN /\ call.row # None
                       /\ \E n \in 1..Len(df_gleif) : call.row = df_gleif[n]
                       /\ LET c == NormRcs(call.row.ra_entity)
                          IN /\ c \in cands
                             /\ C3_IsScore(call.score, k, c)
                             /\ call.score >= rcs_fuzzy_threshold
                             /\ \A c2 \in cands : Len(c) <= Len(c2)
                             /\ (k = K10 /\ c = K11) => call.score = 91
                       /\ (Discovery(i) /\ call.accepted) =>
                              /\ results[i].TypeCorrespondance = APPROX_RCS
                              /\ results[i].ScoreCorrespondance.rcs = call.score
                  ELSE call.row = None

\* C3, as stated: after the exact-id tier accepted nothing, a key c of the
\* index is a candidate for the id k iff len(k) <= len(c) <= len(k) + 2 and k
\* is a substring of c; its score is round(100 * len(k) / len(c)); the tier
\* returns a candidate of maximal score if that score reaches the threshold,
\* nothing otherwise.
C3_AnyIdHasCandidates == C3_Tier(0)

\* C3, amended: the same for ids of at least 4 characters; a shorter id has no
\* candidate. "1513210151" against the key "01513210151" scores 91 and gives
\* the kind ApproxId.
C3_ApproxIdTier == C3_Tier(4)

\* "1513210151" found "01513210151" with the score 91, kind ApproxId
C3_Witness ==
    \E i \in Rows :
        /\ Discovery(i)
        /\ Values(i).rcs_norm = K10
        /\ K11 \in DictKeys(rcs_index)
        /\ \E j \in CallsOf(i, "search_by_rcs_fuzzy") :
              /\ calls[i][j].accepted
              /\ calls[i][j].score = 91
              /\ NormRcs(calls[i][j].row.ra_entity) = K11
        /\ results[i].TypeCorrespondance = APPROX_RCS

\* ---- C4

\* row i is a discovery row, activeOnly is set, and the record of its exact id
\* is not ACTIVE and ISSUED
C4_ExactIdDisqualified(i) ==
    /\ Discovery(i)
    /\ active_only
    /\ RowsWithKey(Values(i).rcs_norm) # {}
    /\ ~ActiveIssued(FirstWithKey(Values(i).rcs_norm))

\* C4: in discovery mode with activeOnly set, an exact-id record that is not
\* ACTIVE and ISSUED counts as not found: the exact tier accepts nothing, the
\* approximate-id tier (when its threshold is not 0) and then the name tier
\* (when the row has a name and nothing was accepted before) are tried, and
\* if neither accepts the outcome is NotFound with no matched field.
C4_DisqualifiedFallsThrough ==
    \A i \in Rows :
        C4_ExactIdDisqualified(i) =>
            LET c == calls[i]
                v == Values(i)
            IN /\ c # <<>>
               /\ c[1].fn = "search_by_rcs"
               /\ c[1].row = FirstWithKey(v.rcs_norm)
               /\ ~c[1].accepted
               /\ results[i].TypeCorrespondance # EXACT_RCS
               /\ rcs_fuzzy_threshold > 0 =>
                      CallsOf(i, "search_by_rcs_fuzzy") = {2}
               /\ ( /\ v.name_norm # <<>>
                    /\ \A j \in CallsOf(i, "search_by_rcs_fuzzy") :
                           ~c[j].accepted )
                  => CallsOf(i, "search_by_name_country") = {Len(c)}
               /\ NoneAccepted(i) =>
                      /\ results[i].TypeCorrespondance = NON_TROUVE
                      /\ CarriesNothing(results[i])

\* a disqualified exact-id record, the two other tiers tried, nothing found
C4_Witness ==
    \E i \in Rows :
        /\ C4_ExactIdDisqualified(i)
        /\ Len(calls[i]) = 3
        /\ NoneAccepted(i)
        /\ results[i].TypeCorrespondance = NON_TROUVE

\* ---- C5

\* the fields on which the row and the record rec disagree
C5_Disagreements(v, rec) ==
    LET rcs_g == NormRcs(rec.ra_entity)
        name_g == NormName(rec.name)
        country_g == Upper(Strip(rec.country))
    IN {f \in {"LEI", "RCS", "Nom", "Pays"} :
          \/ /\ f = "LEI"
             /\ Upper(Strip(rec.lei)) # <<>>
             /\ Upper(v.lei_exist) # Upper(Strip(rec.lei))
          \/ /\ f = "RCS"
             /\ v.rcs_norm # <<>> /\ rcs_g # <<>> /\ v.rcs_norm # rcs_g
          \/ /\ f = "Nom"
             /\ v.name_norm # <<>> /\ name_g # <<>>
             /\ ScoreLT(TokenSortRatio(v.name_norm, name_g), 70)
          \/ /\ f = "Pays"
             /\ v.iso # <<>> /\ country_g # <<>> /\ Upper(v.iso) # country_g}

\* C5: in validation mode, when the declared LEI is in the index (case
\* apart), the outcome carries a record of that LEI, no discovery tier is
\* consulted, and the kind is LeiValid with an empty discordance text iff the
\* row and the record disagree on nothing, LeiDiscordant with a non-empty
\* text otherwise.
C5_DeclaredLeiFound ==
    \A i \in Rows :
        (Validation(i) /\ RowsWithLei(Values(i).lei_exist) # {}) =>
            /\ Len(calls[i]) = 1
            /\ calls[i][1].fn = "search_by_lei"
            /\ calls[i][1].row # None
            /\ \E j \in RowsWithLei(Values(i).lei_exist) :
                  LET differ == C5_Disagreements(Values(i), df_gleif[j])
                      text == results[i].LEI_Discordance
                  IN /\ Carries(results[i], df_gleif[j])
                     /\ IF differ = {}
                        THEN /\ results[i].TypeCorrespondance = LEI_VALIDE
                             /\ text = <<>>
                        ELSE /\ results[i].TypeCorrespondance = LEI_DISCORDANT
                             /\ text # <<>>
                             /\ {text[n].field : n \in 1..Len(text)} = differ

\* a LEI declared in lower case was found and is valid, another is discordant
C5_Witness ==
    /\ \E i \in Rows :
          /\ Validation(i)
          /\ Values(i).lei_exist # Upper(Values(i).lei_exist)
          /\ RowsWithLei(Values(i).lei_exist) # {}
          /\ results[i].TypeCorrespondance = LEI_VALIDE
    /\ \E i \in Rows :
          /\ Validation(i)
          /\ RowsWithLei(Values(i).lei_exist) # {}
          /\ results[i].TypeCorrespondance = LEI_DISCORDANT

\* ---- C6

\* row i is a validation row whose LEI is not in the index and for which the
\* fallback located a record
C6_FallbackFound(i) ==
    /\ Validation(i)
    /\ RowsWithLei(Values(i).lei_exist) = {}
    /\ \E j \in 2..Len(calls[i]) : calls[i][j].accepted

\* C6, as stated: in validation mode, when the declared LEI is not in the
\* index and the fallback locates a record, the kind is LeiDiscordant and the
\* discordance text always holds the LEI-mismatch clause, whatever the fields
\* of the fallback record, its LEI included.
C6_LeiClauseAlwaysPresent ==
    \A i \in Rows :
        C6_FallbackFound(i) =>
            /\ results[i].TypeCorrespondance = LEI_DISCORDANT
            /\ \E n \in 1..Len(results[i].LEI_Discordance) :
                  results[i].LEI_Discordance[n].field = "LEI"

\* ---- C7

\* C7: in validation mode, when the declared LEI is not in the index, the
\* fallback tries the exact id, then the approximate id, then name and
\* country, each only if nothing was found before, and takes the first record
\* found whatever its statuses and whatever activeOnly; the kind is then
\* LeiDiscordant; if nothing is found the kind is LeiUnknown and the outcome
\* carries no record.
C7_ValidationFallback ==
    \A i \in Rows :
        (Validation(i) /\ RowsWithLei(Values(i).lei_exist) = {}) =>
            LET c == calls[i]
                v == Values(i)
            IN /\ c # <<>>
               /\ c[1].fn = "search_by_lei" /\ c[1].row = None
               /\ \A j \in 2..Len(c) : TierRank(c[j].fn) >= 1
               /\ \A j, k \in 2..Len(c) :
                      j < k => /\ TierRank(c[j].fn) < TierRank(c[k].fn)
                               /\ c[j].row = None
               /\ \A j \in 2..Len(c) : c[j].accepted <=> c[j].row # None
               /\ CallsOf(i, "search_by_rcs") # {} <=> v.rcs_norm # <<>>
               /\ RowsWithKey(v.rcs_norm) # {} =>
                      /\ Len(c) = 2
                      /\ c[2].row = FirstWithKey(v.rcs_norm)
               /\ ( /\ v.name_norm # <<>>
                    /\ \A j \in 2..Len(c) :
                           TierRank(c[j].fn) < 3 => c[j].row = None )
                  => CallsOf(i, "search_by_name_country") = {Len(c)}
               /\ \A j \in 2..Len(c) :
                      c[j].accepted =>
                          /\ results[i].TypeCorrespondance = LEI_DISCORDANT
                          /\ Carries(results[i], c[j].row)
               /\ NoneAccepted(i) =>
                      /\ results[i].TypeCorrespondance = LEI_INVALIDE
                      /\ CarriesNothing(results[i])

\* with activeOnly set, the fallback took a record that is not ACTIVE and
\* ISSUED; for another row it found nothing
C7_Witness ==
    /\ active_only
    /\ \E i \in Rows :
          /\ Validation(i)
          /\ RowsWithLei(Values(i).lei_exist) = {}
          /\ \E j \in 2..Len(calls[i]) :
                calls[i][j].accepted /\ ~ActiveIssued(calls[i][j].row)
          /\ results[i].TypeCorrespondance = LEI_DISCORDANT
    /\ \E i \in Rows :
          /\ Validation(i)
          /\ results[i].TypeCorrespondance = LEI_INVALIDE

\* ---- C8

\* row i declares a LEI: its LEI cell holds some text, blanks counting or not
C8_Declared(i, trimmed) ==
    /\ has_lei_col
    /\ (IF trimmed THEN Strip(df_input[i].lei) ELSE df_input[i].lei) # <<>>

\* every row processed has one outcome, whose kind follows the mode
C8_Kinds(trimmed) ==
    /\ Len(results) = idx
    /\ Len(df_input) = idx
    /\ \A i \in Rows :
          IF C8_Declared(i, trimmed)
          THEN results[i].TypeCorrespondance \in ValidationKinds
          ELSE results[i].TypeCorrespondance \in DiscoveryKinds

C9_OneToOne ==
    /\ Len(results) = idx
    /\ Len(df_input) = idx
    /\ Len(calls) = idx
    /\ \A i \in Rows : results[i] = ResultRecord(MatchRow(df_input[i]))
    /\ pc \in {"done", "ZeroDivisionError"} =>
          /\ Len(df_output) = Len(df_input)
          /\ \A i \in 1..Len(df_output) :
                /\ df_output[i].input = df_input[i]
                /\ df_output[i].result = results[i]
    /\ pc \notin {"done", "ZeroDivisionError"} => df_output = <<>>

\* two rows with different outcomes came out in their order
C9_Witness ==
    /\ pc = "done"
    /\ Len(df_output) = 2
    /\ df_output[1].input # df_output[2].input
    /\ df_output[1].result.TypeCorrespondance
       # df_output[2].result.TypeCorrespondance

\* ---- C10

\* the whole table filtered in one pass
C10_OnePass(rows, flag) ==
    IF flag THEN SelectSeq(rows, ActiveIssued) ELSE rows

\* C10: whatever the table, the chunk size and activeOnly, the table loaded
\* chunk by chunk holds the rows that filtering the whole table in one pass
\* yields, in the same order; at any time the chunks kept hold those of the
\* rows read so far.
C10_ChunkedEqualsOnePass ==
    /\ pc = "load" =>
          LET read == IF RowsLeft > 0 THEN chunks_read * chunksize
                      ELSE Len(gleif_file)
          IN Concat(chunks) = C10_OnePass(SubSeq(gleif_file, 1, read), active_only)
    /\ pc # "load" => df_gleif = C10_OnePass(gleif_file, active_only)

\* a table read in two chunks, a row of which the filter dropped
C10_Witness ==
    /\ pc # "load"
    /\ chunks_read >= 2
    /\ active_only
    /\ Len(df_gleif) >= 1
    /\ Len(df_gleif) < Len(gleif_file)

\* ---- C11

\* the two statuses of a reference row read ACTIVE and ISSUED, whatever the
\* case of their letters
C11_ActiveAndIssued(row) ==
    Upper(row.entity_status) = ACTIVE /\ Upper(row.lei_status) = ISSUED

\* C11: the activeOnly filter is a conjunction and is idempotent: a row of the
\* file is in the loaded table iff the filter was not asked for or its entity
\* status is ACTIVE and its LEI status is ISSUED, both at once; filtering the
\* loaded table again with the same flag returns it unchanged.
C11_FilterIsIdempotentConjunction ==
    pc # "load" =>
       /\ \A j \in 1..Len(gleif_file) :
             (\E k \in 1..Len(df_gleif) : df_gleif[k] = gleif_file[j])
                <=> (active_only => C11_ActiveAndIssued(gleif_file[j]))
       /\ _finalize_gleif_df(df_gleif, active_only) = df_gleif

\* a filtered table of one row, from a file whose other row has one of the two
\* statuses right and the other wrong
C11_Witness ==
    /\ pc # "load"
    /\ active_only
    /\ Len(gleif_file) = 2
    /\ Len(df_gleif) = 1
    /\ \E j \in 1..2 :
          (Upper(gleif_file[j].entity_status) = ACTIVE)
             # (Upper(gleif_file[j].lei_status) = ISSUED)

\* ---- C12

\* C12: in a run where a row was resolved in validation mode, the reference
\* table was loaded without the status filter, whatever the value of
\* active_only: it holds every row of the file.
C12_ValidationLoadsAllStatuses ==
    (\E i \in Rows : results[i].TypeCorrespondance \in ValidationKinds)
       => df_gleif = gleif_file

\* a run called with active_only, a row of it validated against a table that
\* holds a row the filter would have dropped
C12_Witness ==
    /\ active_only
    /\ \E i \in Rows : results[i].TypeCorrespondance \in ValidationKinds
    /\ \E j \in 1..Len(df_gleif) : ~C11_ActiveAndIssued(df_gleif[j])

\* ---- C13

\* the fields on which the arguments of a discordance check disagree;
\* bothNames: a name that is absent on one side disagrees with nothing
C13_Differ(arg, bothNames) ==
    LET rec == arg.gleif_row
        lei_c == Upper(Strip(arg.client_lei))
        lei_g == Upper(Strip(rec.lei))
        rcs_c == normalize_rcs(arg.client_rcs_raw)
        rcs_g == normalize_rcs(rec.ra_entity)
        name_c == normalize_name(arg.client_name_raw)
        name_g == normalize_name(rec.name)
        country_g == Upper(Strip(rec.country))
    IN {f \in {"LEI", "RCS", "Nom", "Pays"} :
          \/ f = "LEI" /\ lei_c # <<>> /\ lei_g # <<>> /\ lei_c # lei_g
          \/ f = "RCS" /\ rcs_c # <<>> /\ rcs_g # <<>> /\ rcs_c # rcs_g
          \/ /\ f = "Nom"
             /\ bothNames => (name_c # <<>> /\ name_g # <<>>)
             /\ ScoreLT(token_sort_ratio(name_c, name_g), 70)
          \/ /\ f = "Pays"
             /\ arg.client_iso # <<>> /\ country_g # <<>>
             /\ arg.client_iso # country_g}

\* the text of a check holds one clause for each field that disagrees and
\* none for a field that agrees, and the boolean tells whether it holds any
C13_Check(bothNames) ==
    (pc = "probe" /\ probe.fn = "_check_lei_discordance" /\ probe.out # <<>>) =>
        LET text == probe.out[1].disc_text
        IN /\ \A f \in {"LEI", "RCS", "Nom", "Pays"} :
                 Cardinality({n \in 1..Len(text) : text[n].field = f})
                    = IF f \in C13_Differ(probe.arg, bothNames) THEN 1 ELSE 0
           /\ probe.out[1].is_disc = (text # <<>>)
           /\ C13_Differ(probe.arg, bothNames) = {} =>
                 (text = <<>> /\ probe.out[1].is_disc = FALSE)

\* C13, as stated: the name disagrees iff the similarity of the normalized
\* names is below 70, a name being present on both sides or not.
C13_NameBelowThreshold == C13_Check(FALSE)

\* C13: the text holds exactly one clause per disagreeing field and none for
\* an agreeing field; LEI and registration number disagree iff both sides are
\* present and their uppercased / normalized forms differ, the name iff both
\* normalized names are present and their similarity is below 70, the country
\* iff both sides are present and differ; the boolean is true iff the text
\* holds a clause, and no disagreement gives the empty text and false.
C13_OneClausePerDisagreement == C13_Check(TRUE)

\* a check of a declared LEI, a number and a name whose text mentions the
\* country alone
C13_Witness ==
    /\ pc = "probe"
    /\ probe.fn = "_check_lei_discordance"
    /\ probe.out # <<>>
    /\ Len(probe.out[1].disc_text) = 1
    /\ probe.out[1].disc_text[1].field = "Pays"
    /\ probe.out[1].is_disc
    /\ probe.arg.client_lei # <<>>
    /\ probe.arg.client_name_raw # <<>>
    /\ probe.arg.client_rcs_raw # <<>>

\* ---- C14

\* C14, as stated: zero input rows is not an error: a run on a spreadsheet
\* that has no row ends normally, nothing raised, and returns the empty
\* output it exported.
C14_ZeroRowsIsNoError ==
    (pc \in {"done", "ZeroDivisionError"} /\ df_input = <<>>) =>
        (pc = "done" /\ raised = None /\ df_output = <<>>)

\* ---- C15

\* C15: a required input column (registration number, name or country) that
\* is missing is fatal and is raised before anything else is done: the error
\* lists the missing columns and the available ones, no row of the reference
\* file is read, no index is built, no row is matched, no output is written.
C15_MissingColumnIsFatal ==
    /\ ({COL_RCS, COL_NAME, COL_PAYS} \ input_columns # {}) =>
          /\ pc \in {"start", "ValueError"}
          /\ chunks_read = 0 /\ chunks = <<>> /\ df_gleif = <<>>
          /\ rcs_index = <<>> /\ name_index = <<>> /\ lei_index = <<>>
          /\ idx = 0 /\ results = <<>> /\ calls = <<>>
          /\ df_output = <<>>
    /\ pc = "ValueError" =>
          /\ raised # None
          /\ raised.type = "ValueError"
          /\ {raised.missing_cols[n] : n \in 1..Len(raised.missing_cols)}
                = {COL_RCS, COL_NAME, COL_PAYS} \ input_columns
          /\ raised.missing_cols # <<>>
          /\ raised.available = input_columns

\* the error of a spreadsheet that lacks two of the three columns
C15_Witness ==
    /\ pc = "ValueError"
    /\ Len(raised.missing_cols) = 2
    /\ raised.available # {}

\* ---- C16

\* C16, as stated: a reference file whose suffix is neither that of a CSV
\* nor that of a JSON file is rejected: the run stops on an error before a
\* row of the file is read, a table is returned or a row is matched.
C16_UnsupportedSuffixRejected ==
    gleif_suffix \notin {".csv", ".json"} =>
        /\ pc \in {"load", "ValueError"}
        /\ pc = "ValueError" => raised # None
        /\ chunks_read = 0 /\ chunks = <<>> /\ df_gleif = <<>>
        /\ results = <<>>

\* ---- C17

\* C17: normalize_rcs is idempotent: called on the value it returned it
\* returns that value, the argument carrying a "RCS <city>" prefix, digits
\* that are not ASCII or leading zeros; an argument made of ASCII digits
\* and capital letters alone is returned as it is, its leading zeros kept.
C17_NormalizeRcsIdempotent ==
    (pc = "probe" /\ probe.fn = "normalize_rcs") =>
        /\ Len(probe.out) = 2 => probe.out[2] = probe.out[1]
        /\ (Len(probe.out) >= 1
               /\ \A n \in 1..Len(probe.arg) : IsAsciiUpperAlnum(probe.arg[n]))
              => probe.out[1] = probe.arg

\* normalize_rcs called twice on a number written with digits that are not
\* ASCII behind a "RCS <city>" prefix
C17_Witness ==
    /\ pc = "probe"
    /\ probe.fn = "normalize_rcs"
    /\ Len(probe.out) = 2
    /\ Len(probe.arg) > 4
    /\ SubSeq(probe.arg, 1, 4) = <<"R", "C", "S", " ">>
    /\ probe.arg[Len(probe.arg)] = "AI3"
    /\ probe.out[1] = <<"1", "5", "3">>

\* ---- C18

\* the name search j of row i returned a record that is not ACTIVE and ISSUED
C18_BestIsInactive(i, j) ==
    /\ calls[i][j].fn = "search_by_name_country"
    /\ calls[i][j].row # None
    /\ ~C11_ActiveAndIssued(calls[i][j].row)

\* C18: in discovery mode with activeOnly, when the best name candidate, of a
\* score at or above the threshold, is not ACTIVE and ISSUED, the row has no
\* match: kind NotFound, no score, no matched field; the name search was
\* made once and no search follows it.
C18_InactiveBestNameIsNoMatch ==
    \A i \in Rows :
        \A j \in 1..Len(calls[i]) :
            (Discovery(i) /\ active_only /\ C18_BestIsInactive(i, j)) =>
                /\ calls[i][j].score >= fuzzy_threshold
                /\ ~calls[i][j].accepted
                /\ j = Len(calls[i])
                /\ CallsOf(i, "search_by_name_country") = {j}
                /\ results[i].TypeCorrespondance = NON_TROUVE
                /\ CarriesNothing(results[i])

\* a row left without a match although the table holds, in the same country,
\* a record of the same normalized name that is ACTIVE and ISSUED
C18_Witness ==
    \E i \in Rows :
        /\ Discovery(i)
        /\ active_only
        /\ calls[i] # <<>>
        /\ C18_BestIsInactive(i, Len(calls[i]))
        /\ results[i].TypeCorrespondance = NON_TROUVE
        /\ \E k \in 1..Len(df_gleif) :
              /\ C11_ActiveAndIssued(df_gleif[k])
              /\ NormName(df_gleif[k].name)
                    = NormName(calls[i][Len(calls[i])].row.name)
              /\ Upper(Strip(df_gleif[k].country))
                    = Upper(Strip(calls[i][Len(calls[i])].row.country))

\* ---- C19

\* the number of rows the first loop of build_indices has gone through
C19_Indexed == IF pc = "index_rcs_lei" THEN index_row ELSE Len(df_gleif)

\* the positions, among them, of the rows whose normalized id is key
C19_RowsOf(key) ==
    {i \in 0..(C19_Indexed - 1) : normalize_rcs(iloc(df_gleif, i).ra_entity) = key}

C19_Lowest(S) == CHOOSE m \in S : \A x \in S : m <= x

\* C19: the keys of the exact-id index are distinct and not empty; the rows
\* listed under a key are, in increasing order, the 0-based positions of the
\* table whose normalized registration number is the key, so a row of empty
\* normalized number is listed nowhere; the lookup of a key returns the row
\* of the lowest position listed under it.
C19_ExactIdIndex ==
    /\ \A e, f \in 1..Len(rcs_index) :
            rcs_index[e][1] = rcs_index[f][1] => e = f
    /\ \A e \in 1..Len(rcs_index) :
          LET key == rcs_index[e][1]
              rows == rcs_index[e][2]
          IN /\ key # <<>>
             /\ rows # <<>>
             /\ \A p \in 1..Len(rows) : rows[p] \in 0..(Len(df_gleif) - 1)
             /\ \A p, q \in 1..Len(rows) : p < q => rows[p] < rows[q]
             /\ {rows[p] : p \in 1..Len(rows)} = C19_RowsOf(key)
             /\ search_by_rcs(key, rcs_index, df_gleif)
                   = iloc(df_gleif, C19_Lowest(C19_RowsOf(key)))
    /\ \A i \in 0..(C19_Indexed - 1) :
          LET key == normalize_rcs(iloc(df_gleif, i).ra_entity)
          IN IF key = <<>>
             THEN \A e \in 1..Len(rcs_index) :
                     \A p \in 1..Len(rcs_index[e][2]) : rcs_index[e][2][p] # i
             ELSE key \in DictKeys(rcs_index)

\* the index built on a table of which two rows, written differently, share
\* a normalized number and one row has none
C19_Witness ==
    /\ pc = "match"
    /\ df_input = <<>>
    /\ \E e \in 1..Len(rcs_index) :
          /\ Len(rcs_index[e][2]) = 2
          /\ iloc(df_gleif, rcs_index[e][2][1]).ra_entity
                # iloc(df_gleif, rcs_index[e][2][2]).ra_entity
          /\ search_by_rcs(rcs_index[e][1], rcs_index, df_gleif)
                = iloc(df_gleif, rcs_index[e][2][1])
    /\ \E i \in 0..(Len(df_gleif) - 1) :
          normalize_rcs(iloc(df_gleif, i).ra_entity) = <<>>

\* ---- C20

\* the positions, among the rows gone through, of the rows whose LEI is key
\* once stripped and uppercased
C20_RowsOf(key) ==
    {i \in 0..(C19_Indexed - 1) : Upper(Strip(iloc(df_gleif, i).lei)) = key}

C20_Highest(S) == CHOOSE m \in S : \A x \in S : m >= x

\* C20: the LEI index holds one entry per uppercased LEI of the table, its
\* value the single position of the last row of that LEI; a row of empty LEI
\* has no entry; the lookup of a LEI, in any case, returns that last row.
C20_LeiIndexLastWins ==
    /\ \A e, f \in 1..Len(lei_index) :
            lei_index[e][1] = lei_index[f][1] => e = f
    /\ \A e \in 1..Len(lei_index) :
          LET key == lei_index[e][1]
          IN /\ key # <<>>
             /\ key = Upper(key)
             /\ lei_index[e][2] \in 0..(Len(df_gleif) - 1)
             /\ lei_index[e][2] = C20_Highest(C20_RowsOf(key))
             /\ search_by_lei(key, lei_index, df_gleif)
                   = iloc(df_gleif, C20_Highest(C20_RowsOf(key)))
             /\ search_by_lei(Lower(key), lei_index, df_gleif)
                   = iloc(df_gleif, C20_Highest(C20_RowsOf(key)))
    /\ {lei_index[e][1] : e \in 1..Len(lei_index)}
          = {Upper(Strip(iloc(df_gleif, i).lei)) : i \in 0..(C19_Indexed - 1)}
              \ {<<>>}
    /\ \A e \in 1..Len(lei_index) :
          Upper(Strip(iloc(df_gleif, lei_index[e][2]).lei)) # <<>>

\* the index built on a table of which two rows have the same LEI, one row
\* has a LEI in lower case and one has none
C20_Witness ==
    /\ pc = "match"
    /\ df_input = <<>>
    /\ \E e \in 1..Len(lei_index) :
          /\ Cardinality(C20_RowsOf(lei_index[e][1])) = 2
          /\ search_by_lei(lei_index[e][1], lei_index, df_gleif)
                # iloc(df_gleif, C19_Lowest(C20_RowsOf(lei_index[e][1])))
    /\ \E i \in 0..(Len(df_gleif) - 1) : Strip(iloc(df_gleif, i).lei) = <<>>

\* ---- C21

\* the items of the index whose key passes the conditions of the
\* approximate search for the number looked for
C21_Candidates(arg) ==
    {e \in 1..Len(arg.rcs_index) :
        /\ Len(arg.rcs_index[e][1]) >= Len(arg.rcs_norm)
        /\ Len(arg.rcs_index[e][1]) - Len(arg.rcs_norm) <= 2
        /\ Contains(arg.rcs_index[e][1], arg.rcs_norm)
        /\ Round(Len(arg.rcs_norm) * 100, Len(arg.rcs_index[e][1]))
              >= arg.threshold}

C21_Score(arg, e) == Round(Len(arg.rcs_norm) * 100, Len(arg.rcs_index[e][1]))

\* those of the highest score
C21_Best(arg) ==
    {e \in C21_Candidates(arg) :
        \A f \in C21_Candidates(arg) : C21_Score(arg, e) >= C21_Score(arg, f)}

\* C21: the approximate search returns the first row of the first item, in
\* the order of the index, among the candidate keys of the highest score (a
\* later key of the same score does not replace it), and nothing when no key
\* is a candidate.
C21_FirstOfTheBestWins ==
    (pc = "probe" /\ probe.fn = "search_by_rcs_fuzzy" /\ probe.out # <<>>) =>
        IF C21_Candidates(probe.arg) = {}
        THEN probe.out[1] = [row |-> None, score |-> 0]
        ELSE LET first == CHOOSE e \in C21_Best(probe.arg) :
                             \A f \in C21_Best(probe.arg) : e <= f
             IN /\ probe.out[1].score = C21_Score(probe.arg, first)
                /\ probe.out[1].row
                     = iloc(probe.arg.df, probe.arg.rcs_index[first][2][1])

\* two keys of the same highest score, of different rows: the row returned
\* is the one of the key met first
C21_Witness ==
    /\ pc = "probe"
    /\ probe.fn = "search_by_rcs_fuzzy"
    /\ probe.out # <<>>
    /\ \E e, f \in C21_Best(probe.arg) :
          /\ e < f
          /\ probe.out[1].row = iloc(probe.arg.df, probe.arg.rcs_index[e][2][1])
          /\ probe.out[1].row # iloc(probe.arg.df, probe.arg.rcs_index[f][2][1])

\* ---- C22

\* the outcome of every row is the one the loop body yields for that row
\* alone, on the settings and the indices of the run
C22_RowAlone ==
    \A i \in Rows :
        /\ results[i] = ResultRecord(MatchRow(df_input[i]))
        /\ calls[i] = MatchRow(df_input[i]).calls
        /\ \A j \in Rows : df_input[i] = df_input[j] => results[i] = results[j]

\* C22: while the rows are matched, the reference table and the three
\* indices stay as they were built, and the outcome of a row is a function of
\* that row, the settings and the indices, whatever its place and the rows
\* around it; so permuted input rows give the same records, permuted.
C22_StatelessPerRow ==
    /\ [](pc = "done" => C22_RowAlone)
    /\ [][pc = "match" =>
            UNCHANGED <<df_gleif, rcs_index, name_index, lei_index, active_only,
                        has_lei_col, fuzzy_threshold, rcs_fuzzy_threshold>>]_vars

\* a run over twice the same row, found both times, after a different row
\* would have been left without a match
C22_Witness ==
    /\ pc = "done"
    /\ Len(df_input) = 2
    /\ df_input[1] = df_input[2]
    /\ results[1] = results[2]
    /\ results[1].TypeCorrespondance # NON_TROUVE
    /\ rcs_index # <<>>

\* ---- C23

\* C23: when prepare_slim returns, the output file is one header line
\* followed by the rows of the source that pass the filter (all with the
\* flag off), in their order, whatever it held before, and the value
\* returned is the number of these rows.
C23_SlimIsHeaderAndKeptRows ==
    pc = "slim_done" =>
        /\ slim_file = <<SlimHeader>> \o FilterRows(gleif_file, active_only)
        /\ total_written = Len(FilterRows(gleif_file, active_only))

\* ---- C24

\* the places, in the candidate list of a logical column, of the names that
\* occur in the header
C24_Present(logical, header) ==
    {k \in 1..Len(GLEIF_COLUMN_CANDIDATES[logical]) :
        GLEIF_COLUMN_CANDIDATES[logical][k] \in Range(header)}

\* C24: schema detection maps each logical column to the candidate of the
\* lowest place in its list among those of the header, whatever their order
\* in the header; a logical column without candidate in the header is listed
\* as missing, not mapped, and empty in every row loaded.
C24_FirstCandidateWins ==
    (pc = "probe" /\ probe.fn = "_detect_gleif_columns" /\ probe.out # <<>>) =>
        \A i \in 1..Len(SLIM_COLUMNS) :
            LET logical == SLIM_COLUMNS[i]
                present == C24_Present(logical, probe.arg)
                out == probe.out[1]
            IN IF present = {}
               THEN /\ logical \notin DictKeys(out.col_map)
                    /\ logical \in Range(out.missing)
                    /\ \A k \in 1..Len(out.rows) : out.rows[k][logical] = <<>>
               ELSE LET first == CHOOSE k \in present : \A j \in present : k <= j
                        column == GLEIF_COLUMN_CANDIDATES[logical][first]
                    IN /\ DictGet(out.col_map, logical, "") = column
                       /\ logical \notin Range(out.missing)
                       /\ \A k \in 1..Len(out.rows) :
                             out.rows[k][logical] = <<column>>

\* a header that lists a later candidate of a column before an earlier one
\* and has no candidate of another column: the row is loaded, the earlier
\* candidate read
C24_Witness ==
    /\ pc = "probe"
    /\ probe.fn = "_detect_gleif_columns"
    /\ probe.out # <<>>
    /\ Len(probe.arg) = 3
    /\ probe.arg[1] = "Entity.LegalName.name"
    /\ probe.arg[3] = "Entity.LegalName"
    /\ Len(probe.out[1].rows) = 1
    /\ probe.out[1].rows[1]["name"] = <<"Entity.LegalName">>
    /\ probe.out[1].rows[1]["lei_status"] = <<>>

\* ---- C25

\* C25: with activeOnly, the outcome of a discovery row that carries a
\* record (kinds ExactId, ApproxId, ApproxName) carries the fields of a row
\* of the loaded table whose statuses are ACTIVE and ISSUED, also when the
\* table was loaded unfiltered because a LEI column is configured.
C25_DiscoveryCarriesActiveOnly ==
    \A i \in Rows :
        (/\ Discovery(i)
         /\ active_only
         /\ results[i].TypeCorrespondance \in {EXACT_RCS, APPROX_RCS, APPROX_NOM_PAYS}) =>
            /\ Upper(results[i].GLEIF_StatutSociete) = ACTIVE
            /\ Upper(results[i].GLEIF_StatutLEI) = ISSUED
            /\ \E k \in 1..Len(df_gleif) :
                  /\ Carries(results[i], df_gleif[k])
                  /\ C11_ActiveAndIssued(df_gleif[k])

\* a discovery row matched on a table loaded unfiltered, one of its searches
\* having returned a record that is not ACTIVE and ISSUED
C25_Witness ==
    \E i \in Rows :
        /\ Discovery(i)
        /\ active_only
        /\ has_lei_col
        /\ results[i].TypeCorrespondance \in {EXACT_RCS, APPROX_RCS, APPROX_NOM_PAYS}
        /\ \E j \in 1..Len(calls[i]) :
              /\ calls[i][j].row # None
              /\ ~C11_ActiveAndIssued(calls[i][j].row)

\* ---- C26

\* the arguments of the approximate search made for row i
C26_Search(i) ==
    [rcs_norm |-> Values(i).rcs_norm, rcs_index |-> rcs_index, df |-> df_gleif,
     threshold |-> rcs_fuzzy_threshold]

\* row i is a discovery row handled with activeOnly for which the exact-id
\* tier accepted nothing and the approximate-id tier, enabled, has candidates
C26_ApproxTierHasCandidates(i) ==
    /\ Discovery(i)
    /\ active_only
    /\ rcs_fuzzy_threshold > 0
    /\ Len(Values(i).rcs_norm) >= 4
    /\ results[i].TypeCorrespondance # EXACT_RCS
    /\ C21_Candidates(C26_Search(i)) # {}

\* the first row of the first key of the highest score
C26_BestRow(i) ==
    LET first == CHOOSE e \in C21_Best(C26_Search(i)) :
                    \A f \in C21_Best(C26_Search(i)) : e <= f
    IN iloc(df_gleif, rcs_index[first][2][1])

\* the first rows of the candidate keys that are ACTIVE and ISSUED
C26_Eligible(i) ==
    {e \in C21_Candidates(C26_Search(i)) :
        C11_ActiveAndIssued(iloc(df_gleif, rcs_index[e][2][1]))}

\* C26 as stated: in discovery mode with activeOnly, when the exact-id tier
\* accepted nothing and some ACTIVE and ISSUED record has a key that passes
\* the conditions of the approximate-id tier, the outcome is ApproxId, even
\* if a candidate of a higher score fails the filter.
C26_EligibleIsNeverHidden ==
    \A i \in Rows :
        (C26_ApproxTierHasCandidates(i) /\ C26_Eligible(i) # {}) =>
            results[i].TypeCorrespondance = APPROX_RCS

\* C26 amended: the filter is applied to the one candidate of the highest
\* score (the first met on a tie): the outcome is ApproxId with that record
\* iff it is ACTIVE and ISSUED; otherwise no other candidate is looked at
\* and the outcome is that of the name tier, ApproxName or NotFound.
C26_OnlyTheBestIsFiltered ==
    \A i \in Rows :
        C26_ApproxTierHasCandidates(i) =>
            IF C11_ActiveAndIssued(C26_BestRow(i))
            THEN /\ results[i].TypeCorrespondance = APPROX_RCS
                 /\ Carries(results[i], C26_BestRow(i))
            ELSE /\ results[i].TypeCorrespondance \in {APPROX_NOM_PAYS, NON_TROUVE}
                 /\ Cardinality(CallsOf(i, "search_by_rcs_fuzzy")) = 1
                 /\ \A j \in CallsOf(i, "search_by_rcs_fuzzy") :
                       calls[i][j].row = C26_BestRow(i) /\ ~calls[i][j].accepted

\* a row whose number is the key of a record that fails the filter, scored
\* 100, while a record of a longer key passes it: the outcome is not ApproxId
C26_Witness ==
    \E i \in Rows :
        /\ C26_ApproxTierHasCandidates(i)
        /\ ~C11_ActiveAndIssued(C26_BestRow(i))
        /\ C26_Eligible(i) # {}
        /\ results[i].TypeCorrespondance # APPROX_RCS

\* ---- C27

\* C27: the shape of an output record follows its kind: the fields of one
\* row of the reference table are attached iff the kind is neither NotFound
\* nor LeiUnknown, and without them the score and the text are empty too;
\* the discordance text is not empty iff the kind is LeiDiscordant; the score
\* is 100 for ExactId and empty for the three kinds of the LEI validation.
C27_ShapePerKind ==
    \A i \in Rows :
        LET res == results[i]
            kind == res.TypeCorrespondance
        IN /\ kind \in ValidationKinds \cup DiscoveryKinds
           /\ IF kind \in {NON_TROUVE, LEI_INVALIDE}
              THEN CarriesNothing(res)
              ELSE /\ \E k \in 1..Len(df_gleif) : Carries(res, df_gleif[k])
                   /\ ~CarriesNothing(res)
           /\ (res.LEI_Discordance # <<>>) <=> (kind = LEI_DISCORDANT)
           /\ kind = EXACT_RCS => res.ScoreCorrespondance = NumScore(100)
           /\ kind \in ValidationKinds => res.ScoreCorrespondance = NoScore

\* a finished run whose two records are of kinds of different shapes: a
\* discordant LEI, with its record and its text, and an exact number
C27_Witness ==
    /\ pc = "done"
    /\ \E i, j \in Rows :
          /\ results[i].TypeCorrespondance = LEI_DISCORDANT
          /\ results[i].LEI_Discordance # <<>>
          /\ results[i].LEI_GLEIF # <<>>
          /\ results[j].TypeCorrespondance = EXACT_RCS
          /\ results[j].ScoreCorrespondance = NumScore(100)

\* ---- C28

\* C28: country_to_iso called on a key of COUNTRY_MAP, in any letter case,
\* returns the code the table gives for that key, the keys of two letters
\* included.
C28_EveryKeyResolves ==
    (pc = "probe" /\ probe.fn = "country_to_iso" /\ probe.out # <<>>) =>
        probe.out[1] = probe.arg.code

\* ---- C29

\* the kind a label of the interface stands for, as match_companies writes it
C29_Kind(label) == IF label = GUI_NON_TROUVE THEN NON_TROUVE ELSE label

\* C29: the interface and match_companies agree: on the same reference
\* table, settings and input row, the record of the interface has the
\* matched fields, the kind, the score and the discordance text of the
\* record match_companies makes for that row.
C29_GuiAgreesWithCli ==
    \A i \in Rows :
        LET cli == ResultRecord(MatchRow(df_input[i]))
        IN /\ C29_Kind(results[i].TypeCorrespondance) = cli.TypeCorrespondance
           /\ [results[i] EXCEPT !.TypeCorrespondance = cli.TypeCorrespondance]
                 = cli

\* ---- C30

\* C30: whatever the user does with the update dialog (check, download,
\* close, open again), at most one worker thread is active at a time; and
\* once the workers have ended and the callbacks have run, the flag _running
\* of the dialog on screen is cleared and its check button enabled.
C30_AtMostOneWorker ==
    /\ Cardinality(workers) <= 1
    /\ (workers = {} /\ tk_queue = <<>> /\ shown # 0) =>
          (~running[shown] /\ btn_check[shown] = "normal")

====
